---- MODULE Spec2Model ----
(***************************************************************************)
(* GameEngine of the AI werewolf game (src/src/core/game.py): the run      *)
(* loop, the night phase with the werewolf negotiation, the day phase with *)
(* vote, PK re-vote and hunter shots, and check_win_condition.             *)
(*                                                                         *)
(* Seats are 1..N, None is 0.  A reply of Player.act is a string; the      *)
(* engine applies int() to it.  The winner strings of the source are       *)
(* written "Good" (好人阵营), "Werewolf" (狼人阵营) and "Draw".            *)
(*                                                                         *)
(* Player (src/src/core/player.py) and LLMClient (src/src/llm/client.py)   *)
(* are modelled for one Player: the memory with its token budget, and one  *)
(* call of act from the retry loop of generate_response through the        *)
(* parsing stages of act to the value the caller records.  There a text    *)
(* is a sequence of characters.                                            *)
(*                                                                         *)
(* The gathered votes (asyncio.gather over act) are also modelled task by  *)
(* task, and load_config (src/src/utils/config.py) by its validation of    *)
(* the model list against the role counts.                                 *)
(***************************************************************************)
EXTENDS Integers, Sequences, FiniteSets, TLC

\* config.game.max_turns of the modelled runs
MaxTurns == 2

\* game.py: max_rounds = 3
max_rounds == 3

None == 0

WEREWOLF == "werewolf"
WITCH == "witch"
SEER == "seer"
HUNTER == "hunter"
VILLAGER == "villager"

GOOD_WINS == "Good"
WOLF_WINS == "Werewolf"
DRAW == "Draw"
NoWinner == "None"

\* role lists as initialize_game leaves them after the shuffle (seat i = entry i)
GameConfigs ==
  { <<WEREWOLF, WITCH, HUNTER, SEER>>,
    <<HUNTER, VILLAGER, WITCH, WEREWOLF>> }

\* role lists for the runs of the negotiation protocol (0..3 wolves)
WolfConfigs ==
  { <<WEREWOLF, VILLAGER, VILLAGER>>,
    <<VILLAGER, WEREWOLF, VILLAGER, WEREWOLF, VILLAGER>>,
    <<WEREWOLF, WEREWOLF, VILLAGER, WEREWOLF>>,
    <<WITCH, VILLAGER>> }

VARIABLES
  role,                 \* seat -> RoleType (Player.role.type)
  is_alive,             \* seat -> BOOLEAN (Player.is_alive)
  turn, game_over, winner,
  poison_used,          \* Witch.poison_used
  pc,                   \* position of the control thread
  asked,                \* seats whose speak/act was called by the last step
  ret,                  \* value returned by the last check_win_condition
  target_id, save_id, poison_id,      \* run_night_phase locals
  antidote_used,        \* the witch has saved a target in this game
  deaths, final_dead, ni,             \* deaths: sequence of <<pid, reason>>
  votes, current_round_votes, round_idx, wi,   \* _werewolf_action locals
  context,              \* other_votes_context of the wolf asked last
  solicited,            \* seat -> calls of act on it in this negotiation
  dead_at_night, di,                  \* run_day_phase argument, hunter loop
  day_votes, pk_ids, pk_votes, out_id, shot_id,   \* run_day_phase locals
  nvote,                \* votes held in the current day
  speeches,             \* run_day_phase local: the speakers of the statements
                        \* collected in the current sequential step, in order
  heard,                \* seat -> the statements of the current step that
                        \* receive_message put into the seat's history
  memory,               \* Player.memory: sequence of entries
  max_tokens,           \* the budget _manage_memory reads from the config
  mem_last,             \* the last operation on the Player's memory
  before_len,           \* len(memory) before the last _manage_memory call
  calls_since_trim,     \* generate_response calls since the last _manage_memory
  delivered,            \* the chunks passed to stream_callback in this call, joined
  json_mode, retries,   \* ModelConfig.json_mode, ModelConfig.max_retries
  judge,                \* the judge client of the Player and what it answers
  act_options, caller,  \* the options passed to act, the kind of caller
  attempt, last_exception,   \* generate_response locals
  transport,            \* outcome of the last attempt of the transport
  llm_response,         \* the text generate_response returned
  act_ret,              \* what act returned
  recorded,             \* the decision the caller recorded
  act_pc,               \* position of the call of act
  script,               \* how the agents are scripted: "free" or "abstain"
  task_st,              \* seat -> state of its task in the asyncio.gather
  completion,           \* the seats of the finished tasks, in completion order
  agent_reply,          \* seat -> what its agent answers in the gathered step
  hunter_calls,         \* seat -> calls of act("猎人开枪") on it in this game
  hunter_kills,         \* seat -> the seats its shots have named in this game
  models, roles,        \* AppConfig.models (disabled flags), game.roles
  config_pc             \* position of the call of load_config

vars == << role, is_alive, turn, game_over, winner, poison_used, pc, asked,
           ret, target_id, save_id, poison_id, antidote_used, deaths, final_dead, ni,
           votes, current_round_votes, round_idx, wi, context, solicited,
           dead_at_night, di, day_votes, pk_ids, pk_votes, out_id, shot_id,
           nvote, speeches, heard, memory, max_tokens, mem_last, before_len,
           calls_since_trim, delivered,
           json_mode, retries, judge, act_options, caller, attempt, last_exception,
           transport, llm_response, act_ret, recorded, act_pc, script,
           task_st, completion, agent_reply, hunter_calls, hunter_kills,
           models, roles, config_pc >>

nightVars == << target_id, save_id, poison_id, antidote_used, deaths, final_dead, ni >>
wolfVars == << votes, current_round_votes, round_idx, wi, context, solicited >>
dayVars == << dead_at_night, di, day_votes, pk_ids, pk_votes, out_id, shot_id, nvote >>
gameVars == << role, is_alive, turn, game_over, winner, poison_used, ret >>
memVars == << memory, max_tokens, mem_last, before_len, calls_since_trim >>
actVars == << json_mode, retries, judge, act_options, caller, attempt, last_exception,
             transport, llm_response, act_ret, recorded, act_pc, delivered >>
speechVars == << speeches, heard >>
\* what the stepwise actions of the discussion and of the PK speeches leave
\* alone besides the engine's own variables
gatherVars == << task_st, completion, agent_reply >>
configVars == << models, roles, config_pc >>
hunterVars == << hunter_calls, hunter_kills >>
sideVars == << memVars, actVars, script, gatherVars, configVars, hunterVars >>
\* the state of one Player and of one call of act, which no step of the
\* engine's control thread reads, the script of the agents, and the
\* statements of the current sequential step
auxVars == << sideVars, speechVars >>
\* the state of the engine, and the script of the agents
coreVars == << gameVars, nightVars, wolfVars, dayVars, pc, asked, script, speechVars,
              hunterVars >>
\* all that a step of one Player or of one call of act leaves alone
engineVars == << coreVars, gatherVars, configVars >>

Seats == DOMAIN role

Faction(r) == IF r = WEREWOLF THEN "werewolf" ELSE "good"

EmptyMap == [x \in {} |-> 0]

Range(f) == { f[x] : x \in DOMAIN f }

Min(S) == CHOOSE x \in S : \A y \in S : x <= y

RECURSIVE SortedSeq(_)
SortedSeq(S) == IF S = {} THEN << >> ELSE << Min(S) >> \o SortedSeq(S \ {Min(S)})

\* ---------------------------------------------------------------------
\* Replies of Player.act and Python's int()
\* ---------------------------------------------------------------------
IntText(n) ==
  CASE n = -1 -> "-1" [] n = 0 -> "0" [] n = 1 -> "1" [] n = 2 -> "2"
    [] n = 3 -> "3" [] n = 4 -> "4" [] n = 5 -> "5" [] n = 6 -> "6"
    [] n = 7 -> "7" [] OTHER -> "8"

\* act does not return: an exception leaves it (player.py 214-217, a
\* structured reply that is valid JSON but not an object)
ActRaised == "raise"

\* what an agent can make act do: return a legal id, -1, an id that is not
\* a seat (0, N+1) or a text without an integer, or raise; agents scripted
\* to abstain make every act return -1
Replies ==
  IF script = "abstain"
    THEN { IntText(-1) }
    ELSE { IntText(n) : n \in -1 .. (Cardinality(Seats) + 1) } \cup { "abc", ActRaised }

\* int(resp) inside the caller's try: ok = FALSE when int() raises
\* ValueError or act itself raised
ParseInt(resp) ==
  IF \E n \in -1 .. 8 : IntText(n) = resp
    THEN [ok |-> TRUE, val |-> CHOOSE n \in -1 .. 8 : IntText(n) = resp]
    ELSE [ok |-> FALSE, val |-> 0]

\* ---------------------------------------------------------------------
\* Engine helpers
\* ---------------------------------------------------------------------
get_alive_players == { s \in Seats : is_alive[s] }

AliveWolves == { s \in Seats : is_alive[s] /\ role[s] = WEREWOLF }

AliveGood == { s \in Seats : is_alive[s] /\ Faction(role[s]) = "good" }

\* wolves = [p for p in players.values() if alive wolf]: players is filled in
\* seat order, so the list is in ascending seat id
wolves == SortedSeq(AliveWolves)

\* a parse that accepts any integer
AskWolfTargetUnchecked(resp, valid_targets) ==
  LET p == ParseInt(resp)
  IN IF p.ok THEN p.val ELSE None

\* ask_wolf / the body of the negotiation try-block: the parsed target, or
\* None when int() fails or the target is not in valid_targets
AskWolfTarget(resp, valid_targets) ==
  LET p == ParseInt(resp)
  IN IF p.ok /\ p.val \in valid_targets THEN p.val ELSE None

\* the votes dict built from one reply per wolf of ws
WolfVotes(replies, ws, valid_targets) ==
  [ w \in { x \in ws : AskWolfTarget(replies[x], valid_targets) # None }
      |-> AskWolfTarget(replies[w], valid_targets) ]

\* final_votes.count(t)
CountOf(vs, t) == Cardinality({ v \in DOMAIN vs : vs[v] = t })

\* iteration order of set(final_votes): CPython keeps small ints (< 8, at
\* most four of them) in slot order, which is ascending order
set_iter(S) == SortedSeq(S)

\* agreement that also needs a vote of every living wolf
ConsensusOfAll(vs) ==
  Cardinality(Range(vs)) = 1 /\ DOMAIN vs = { s \in Seats : is_alive[s] /\ role[s] = WEREWOLF }

\* the unique targets of a votes dict agree: len(unique_targets) == 1
Consensus(vs) == Cardinality(Range(vs)) = 1

\* the first element of seq whose vote count in vs is maximal, which is what
\* Python's max(seq, key=final_votes.count) returns
FirstMax(seq, vs) ==
  seq[CHOOSE k \in 1 .. Len(seq) :
        /\ \A j \in 1 .. Len(seq) : CountOf(vs, seq[j]) <= CountOf(vs, seq[k])
        /\ \A j \in 1 .. (k - 1) : CountOf(vs, seq[j]) < CountOf(vs, seq[k])]

\* final_votes = list(votes.values()): the votes in the order of the wolves
final_votes(vs) == [ i \in 1 .. Cardinality(DOMAIN vs) |-> vs[SortedSeq(DOMAIN vs)[i]] ]

\* a resolution that scans the votes in the order they were cast
ForceTargetFirstVoted(vs) == FirstMax(final_votes(vs), vs)

\* max(set(final_votes), key=final_votes.count)
ForceTarget(vs) == FirstMax(set_iter(Range(vs)), vs)

\* ---------------------------------------------------------------------
\* Initial states
\* ---------------------------------------------------------------------
EngineInitAt(cfg, alive, t, at, pk) ==
  /\ role = cfg
  /\ is_alive = alive
  /\ turn = t
  /\ game_over = FALSE
  /\ winner = NoWinner
  /\ poison_used = FALSE
  /\ pc = at
  /\ asked = {}
  /\ ret = FALSE
  /\ target_id = None /\ save_id = None /\ poison_id = None
  /\ antidote_used = FALSE
  /\ deaths = << >> /\ final_dead = << >> /\ ni = 1
  /\ votes = EmptyMap /\ current_round_votes = EmptyMap
  /\ round_idx = 0 /\ wi = 1
  /\ context = << >>
  /\ solicited = [ s \in DOMAIN cfg |-> 0 ]
  /\ dead_at_night = << >> /\ di = 1
  /\ day_votes = EmptyMap /\ pk_ids = pk /\ pk_votes = EmptyMap
  /\ out_id = None /\ shot_id = None
  /\ nvote = 0
  /\ speeches = << >>
  /\ heard = [ s \in DOMAIN cfg |-> << >> ]
  /\ hunter_calls = [ s \in DOMAIN cfg |-> 0 ]
  /\ hunter_kills = [ s \in DOMAIN cfg |-> {} ]

\* no gathered step is in progress
GatherIdle(cfg) ==
  /\ task_st = [ s \in DOMAIN cfg |-> "none" ]
  /\ completion = << >>
  /\ agent_reply = EmptyMap

\* the configuration has been loaded: the game runs
ConfigIdle ==
  /\ models = << >>
  /\ roles = EmptyMap
  /\ config_pc = "idle"

\* the engine at the start of a night
EngineInit(cfg, alive, t) ==
  /\ EngineInitAt(cfg, alive, t, "night_wolf", {})
  /\ GatherIdle(cfg)
  /\ ConfigIdle

\* a Player that has not been used: no memory is modelled
MemIdle ==
  /\ memory = << >>
  /\ max_tokens = 0
  /\ mem_last = "idle"
  /\ before_len = 0
  /\ calls_since_trim = 0

\* str(None), the text of last_exception = None
NoneText == << "N", "o", "n", "e" >>

\* no call of act is modelled
ActIdle ==
  /\ json_mode = FALSE
  /\ judge = [on |-> FALSE, raises |-> FALSE, resp |-> << >>]
  /\ retries = 0
  /\ act_options = {}
  /\ caller = "none"
  /\ attempt = 0
  /\ transport = [ok |-> FALSE, text |-> << >>]
  /\ last_exception = NoneText
  /\ llm_response = << >>
  /\ act_ret = [raised |-> FALSE, via |-> "none", text |-> << >>]
  /\ recorded = None
  /\ act_pc = "idle"
  /\ delivered = << >>

InitWith(cfg, alive, t) ==
  /\ EngineInit(cfg, alive, t)
  /\ MemIdle
  /\ ActIdle
  /\ script = "free"

\* GameEngine.__init__ + initialize_game: everybody alive, turn 1
Init ==
  \E cfg \in GameConfigs :
    InitWith(cfg, [s \in DOMAIN cfg |-> TRUE], 1)

\* ---------------------------------------------------------------------
\* _werewolf_action
\* ---------------------------------------------------------------------
\* return from _werewolf_action to run_night_phase
WolfReturn(t) ==
  /\ target_id' = t
  /\ pc' = "night_witch_save"
  /\ UNCHANGED << votes, current_round_votes, round_idx, wi >>

WolfStart ==
  /\ UNCHANGED auxVars
  /\ pc = "night_wolf"
  /\ asked' = {}
  /\ context' = << >>
  /\ solicited' = [ s \in Seats |-> 0 ]
  /\ IF AliveWolves = {} \/ get_alive_players = {}
       THEN WolfReturn(None)
       ELSE /\ pc' = "wolf_blind"
            /\ UNCHANGED << target_id, votes, current_round_votes, round_idx, wi >>
  /\ UNCHANGED << gameVars, dayVars, save_id, antidote_used, poison_id, deaths, final_dead, ni >>

\* the blind round: asyncio.gather over ask_wolf, one reply per wolf
WolfBlind ==
  /\ UNCHANGED auxVars
  /\ pc = "wolf_blind"
  /\ \E replies \in [AliveWolves -> Replies] :
       votes' = WolfVotes(replies, AliveWolves, get_alive_players)
  /\ asked' = AliveWolves
  /\ context' = << >>
  /\ solicited' = [ s \in Seats |-> IF s \in AliveWolves THEN solicited[s] + 1
                                                        ELSE solicited[s] ]
  /\ round_idx' = 0
  /\ pc' = "wolf_check"
  /\ UNCHANGED << gameVars, dayVars, nightVars, current_round_votes, wi >>

\* a loop that runs one round more than max_rounds
MoreRoundsOneMore(r) == r <= max_rounds

\* for round_idx in range(max_rounds): r rounds have been run
MoreRounds(r) == r < max_rounds

\* the consensus check after the blind round and after each negotiation round
WolfCheck ==
  /\ UNCHANGED auxVars
  /\ pc = "wolf_check"
  /\ asked' = {}
  /\ UNCHANGED << context, solicited >>
  /\ IF Consensus(votes)
       THEN WolfReturn(CHOOSE t \in Range(votes) : TRUE)
       ELSE IF MoreRounds(round_idx)
         THEN /\ pc' = "wolf_round"
              /\ round_idx' = round_idx + 1
              /\ wi' = 1
              /\ current_round_votes' = EmptyMap
              /\ UNCHANGED << votes, target_id >>
         ELSE /\ pc' = "wolf_force"
              /\ UNCHANGED << votes, target_id, round_idx, wi, current_round_votes >>
  /\ UNCHANGED << gameVars, dayVars, save_id, antidote_used, poison_id, deaths, final_dead, ni >>

\* the entries of one loop that builds other_votes_context: one entry for
\* each wolf of ws that has a vote in vs
ContextEntries(ws, vs, kind) ==
  LET voted == SelectSeq(ws, LAMBDA w : w \in DOMAIN vs)
  IN [ j \in 1 .. Len(voted) |->
         [wolf |-> voted[j], round |-> kind, choice |-> vs[voted[j]]] ]

\* a context that shows every other wolf's vote of the previous round
other_votes_context_lagging(i) ==
  ContextEntries(SubSeq(wolves, 1, i - 1) \o SubSeq(wolves, i + 1, Len(wolves)),
                 votes, "previous")

\* other_votes_context for wolves[i]: this round's votes of wolves[:i], then
\* the previous round's votes of wolves[i+1:]
other_votes_context(i) ==
  ContextEntries(SubSeq(wolves, 1, i - 1), current_round_votes, "current")
    \o ContextEntries(SubSeq(wolves, i + 1, Len(wolves)), votes, "previous")

\* one wolf of a negotiation round is asked
WolfAsk ==
  /\ UNCHANGED auxVars
  /\ pc = "wolf_round"
  /\ wi <= Len(wolves)
  /\ \E resp \in Replies :
       LET t == AskWolfTarget(resp, get_alive_players)
       IN current_round_votes' =
            IF t # None
              THEN [ w \in DOMAIN current_round_votes \cup { wolves[wi] } |->
                       IF w = wolves[wi] THEN t ELSE current_round_votes[w] ]
              ELSE current_round_votes
  /\ asked' = { wolves[wi] }
  /\ context' = other_votes_context(wi)
  /\ solicited' = [ solicited EXCEPT ![wolves[wi]] = @ + 1 ]
  /\ wi' = wi + 1
  /\ UNCHANGED << gameVars, dayVars, nightVars, votes, round_idx, pc >>

\* votes = current_round_votes
WolfRoundEnd ==
  /\ UNCHANGED auxVars
  /\ pc = "wolf_round"
  /\ wi > Len(wolves)
  /\ votes' = current_round_votes
  /\ current_round_votes' = EmptyMap
  /\ asked' = {}
  /\ context' = << >>
  /\ UNCHANGED solicited
  /\ pc' = "wolf_check"
  /\ UNCHANGED << gameVars, dayVars, nightVars, round_idx, wi >>

\* forced resolution after max_rounds
WolfForce ==
  /\ UNCHANGED auxVars
  /\ pc = "wolf_force"
  /\ asked' = {}
  /\ UNCHANGED << context, solicited >>
  /\ IF DOMAIN votes = {}
       THEN WolfReturn(None)
       ELSE WolfReturn(ForceTarget(votes))
  /\ UNCHANGED << gameVars, dayVars, save_id, antidote_used, poison_id, deaths, final_dead, ni >>

NextWolf ==
  \/ WolfStart
  \/ WolfBlind
  \/ WolfCheck
  \/ WolfAsk
  \/ WolfRoundEnd
  \/ WolfForce

\* night-start states of the negotiation runs: everybody alive in turn 1, or
\* a later night, which run() only starts with 1 <= wolves < good
InitWolf ==
  \E cfg \in WolfConfigs :
    \E alive \in [DOMAIN cfg -> BOOLEAN] :
      LET w == Cardinality({ s \in DOMAIN cfg : alive[s] /\ cfg[s] = WEREWOLF })
          g == Cardinality({ s \in DOMAIN cfg : alive[s] /\ cfg[s] # WEREWOLF })
          all == \A s \in DOMAIN cfg : alive[s]
      IN /\ all \/ (w >= 1 /\ w < g)
         /\ InitWith(cfg, alive, IF all THEN 1 ELSE 2)

SpecWolf == InitWolf /\ [][NextWolf]_vars

\* _werewolf_action is one coroutine of the single control thread: it takes
\* its next step whenever it has one
SpecWolfFair == InitWolf /\ [][NextWolf]_vars /\ WF_vars(NextWolf)

\* ---------------------------------------------------------------------
\* _witch_action, _seer_action, _hunter_action
\* ---------------------------------------------------------------------
\* next((p for p in players.values() if p.role.type == ...), None)
FirstOfType(t) ==
  IF \E s \in Seats : role[s] = t
    THEN Min({ s \in Seats : role[s] = t })
    ELSE None

\* what the three callers of _hunter_action leave alone outside the engine
hunterFrame == << memVars, actVars, script, gatherVars, configVars, speechVars >>

\* hunter.act("猎人开枪", alive) has been called on pid and returned shot
HunterCalled(pid, shot) ==
  /\ hunter_calls' = [ hunter_calls EXCEPT ![pid] = @ + 1 ]
  /\ hunter_kills' = IF shot # None
                        THEN [ hunter_kills EXCEPT ![pid] = @ \cup { shot } ]
                        ELSE hunter_kills

\* the options _hunter_action offers: the living seats other than the hunter
HunterOptions(hunter_id) == get_alive_players \ { hunter_id }

\* int(resp) checked against a list of options; None when int() raises or
\* the value is not an option
ChoiceIn(resp, options) ==
  LET p == ParseInt(resp)
  IN IF p.ok /\ p.val \in options THEN p.val ELSE None

\* witch.act("save", [target_id]) when there is a target
WitchSave ==
  /\ UNCHANGED auxVars
  /\ pc = "night_witch_save"
  /\ LET witch == FirstOfType(WITCH)
     IN IF witch = None \/ ~is_alive[witch]
          THEN /\ save_id' = None /\ poison_id' = None
               /\ asked' = {}
               /\ pc' = "night_seer"
          ELSE /\ IF target_id # None
                    THEN /\ \E resp \in Replies :
                              save_id' = IF ParseInt(resp).ok /\ ParseInt(resp).val = target_id
                                           THEN target_id ELSE None
                         /\ asked' = { witch }
                    ELSE /\ save_id' = None
                         /\ asked' = {}
               /\ poison_id' = None
               /\ pc' = "night_witch_poison"
  /\ antidote_used' = (antidote_used \/ save_id' # None)
  /\ votes' = EmptyMap /\ current_round_votes' = EmptyMap
  /\ round_idx' = 0 /\ wi' = 1
  /\ context' = << >>
  /\ solicited' = [ s \in Seats |-> 0 ]
  /\ UNCHANGED << gameVars, dayVars, target_id, deaths, final_dead, ni >>

\* a poison that is never marked as used
PoisonUsedNever(p) == FALSE

\* witch.role.poison_used = True, reached only for a legal poison target
PoisonUsedAfter(p) == p # None

\* witch.act("poison", alive_ids) unless poison_used
WitchPoison ==
  /\ UNCHANGED auxVars
  /\ pc = "night_witch_poison"
  /\ IF poison_used
       THEN /\ poison_id' = None
            /\ asked' = {}
            /\ UNCHANGED poison_used
       ELSE /\ \E resp \in Replies :
                 /\ poison_id' = ChoiceIn(resp, get_alive_players)
                 /\ poison_used' = PoisonUsedAfter(ChoiceIn(resp, get_alive_players))
            /\ asked' = { FirstOfType(WITCH) }
  /\ pc' = "night_seer"
  /\ UNCHANGED << role, is_alive, turn, game_over, winner, ret, dayVars, wolfVars,
                  target_id, save_id, antidote_used, deaths, final_dead, ni >>

\* the seer's check only adds a private message to the seer's own history
SeerAction ==
  /\ UNCHANGED auxVars
  /\ pc = "night_seer"
  /\ LET seer == FirstOfType(SEER)
     IN asked' = IF seer = None \/ ~is_alive[seer] THEN {} ELSE { seer }
  /\ pc' = "night_deaths"
  /\ UNCHANGED << gameVars, dayVars, wolfVars, nightVars >>

\* ---------------------------------------------------------------------
\* run_night_phase: the deaths dict and the hunter loop
\* ---------------------------------------------------------------------
\* deaths = {}; deaths[target_id] = "wolf"; deaths[poison_id] = "poison"
\* (a dict keeps the position of a key that is assigned again)
\* a save that would also cancel the poison on the saved seat
NightDeathsOfSaveAll(t, sv, po) ==
  LET d1 == IF t # None /\ t # sv THEN << << t, "wolf" >> >> ELSE << >>
  IN IF po = None \/ po = sv THEN d1
     ELSE IF Len(d1) = 1 /\ d1[1][1] = po THEN << << po, "poison" >> >>
     ELSE d1 \o << << po, "poison" >> >>

NightDeathsOf(t, sv, po) ==
  LET d1 == IF t # None /\ t # sv THEN << << t, "wolf" >> >> ELSE << >>
  IN IF po = None THEN d1
     ELSE IF Len(d1) = 1 /\ d1[1][1] = po THEN << << po, "poison" >> >>
     ELSE d1 \o << << po, "poison" >> >>

NightDeaths ==
  /\ UNCHANGED auxVars
  /\ pc = "night_deaths"
  /\ deaths' = NightDeathsOf(target_id, save_id, poison_id)
  /\ final_dead' = << >>
  /\ ni' = 1
  /\ asked' = {}
  /\ pc' = "night_loop"
  /\ UNCHANGED << gameVars, dayVars, wolfVars, target_id, save_id, antidote_used, poison_id >>

\* whether the night loop lets a dead hunter shoot
NightHunterShoots(pid, reason) == role[pid] = HUNTER /\ reason # "poison"

\* a night loop that marks the seat the hunter shot dead on the spot
NightShotApplied(shot) == [ s \in Seats |-> is_alive[s] /\ s # shot ]

\* final_dead.append(shot_id): the night loop only collects the seat the
\* hunter shot, no update_status is called
NightShot(shot) == is_alive

\* one iteration of "for pid, reason in deaths.items()"
NightLoop ==
  /\ UNCHANGED hunterFrame
  /\ pc = "night_loop"
  /\ ni <= Len(deaths)
  /\ LET pid == deaths[ni][1]
         reason == deaths[ni][2]
     IN IF NightHunterShoots(pid, reason) /\ HunterOptions(pid) # {}
          THEN /\ \E resp \in Replies :
                    LET shot == ChoiceIn(resp, HunterOptions(pid))
                    IN /\ final_dead' = IF shot # None
                                          THEN final_dead \o << pid, shot >>
                                          ELSE Append(final_dead, pid)
                       /\ is_alive' = NightShot(shot)
                       /\ HunterCalled(pid, shot)
               /\ asked' = { pid }
          ELSE /\ final_dead' = Append(final_dead, pid)
               /\ asked' = {}
               /\ UNCHANGED << is_alive, hunterVars >>
  /\ ni' = ni + 1
  /\ UNCHANGED << role, turn, game_over, winner, poison_used, ret >>
  /\ UNCHANGED << dayVars, wolfVars, target_id, save_id, antidote_used, poison_id, deaths, pc >>

\* return list(set(final_dead)); run() passes it to run_day_phase
NightReturn ==
  /\ UNCHANGED auxVars
  /\ pc = "night_loop"
  /\ ni > Len(deaths)
  /\ dead_at_night' = set_iter(Range(final_dead))
  /\ target_id' = None /\ save_id' = None /\ poison_id' = None
  /\ final_dead' = << >> /\ ni' = 1
  /\ UNCHANGED << deaths, antidote_used >>
  /\ UNCHANGED << di, day_votes, pk_ids, pk_votes, out_id, shot_id, nvote >>
  /\ asked' = {}
  /\ pc' = "day_start"
  /\ UNCHANGED << gameVars, wolfVars >>

NextNight ==
  \/ WitchSave
  \/ WitchPoison
  \/ SeerAction
  \/ NightDeaths
  \/ NightLoop
  \/ NightReturn

\* ---------------------------------------------------------------------
\* check_win_condition
\* ---------------------------------------------------------------------
\* a win check in which the wolves need a strict majority
check_win_strict ==
  IF AliveWolves = {}
    THEN [ret |-> TRUE, game_over |-> TRUE, winner |-> GOOD_WINS]
    ELSE IF Cardinality(AliveWolves) > Cardinality(AliveGood)
      THEN [ret |-> TRUE, game_over |-> TRUE, winner |-> WOLF_WINS]
      ELSE [ret |-> FALSE, game_over |-> game_over, winner |-> winner]

\* the values check_win_condition leaves in game_over and winner, and the
\* value it returns
check_win_condition ==
  IF AliveWolves = {}
    THEN [ret |-> TRUE, game_over |-> TRUE, winner |-> GOOD_WINS]
    ELSE IF Cardinality(AliveWolves) >= Cardinality(AliveGood)
      THEN [ret |-> TRUE, game_over |-> TRUE, winner |-> WOLF_WINS]
      ELSE [ret |-> FALSE, game_over |-> game_over, winner |-> winner]

\* "if self.check_win_condition(): return", else continue at pc next
CheckWinStep(next) ==
  /\ ret' = check_win_condition.ret
  /\ game_over' = check_win_condition.game_over
  /\ winner' = check_win_condition.winner
  /\ pc' = IF check_win_condition.ret THEN "run_turn" ELSE next
  /\ asked' = {}
  /\ UNCHANGED << role, is_alive, turn, poison_used >>

\* ---------------------------------------------------------------------
\* run_day_phase
\* ---------------------------------------------------------------------
\* a status update that writes the flag of every seat
KillReviving(S) == [ s \in Seats |-> s \notin S ]

\* update_status(False) for every seat of S
Kill(S) == [ s \in Seats |-> is_alive[s] /\ s \notin S ]

\* the night's dead are marked dead
DayApply ==
  /\ UNCHANGED auxVars
  /\ pc = "day_start"
  /\ is_alive' = Kill(Range(dead_at_night))
  /\ pc' = IF dead_at_night # << >> THEN "day_lastwords" ELSE "day_discuss"
  /\ asked' = {}
  /\ UNCHANGED << role, turn, game_over, winner, poison_used, ret,
                  nightVars, wolfVars, dayVars >>

\* every seat of dead_at_night speaks its last words
DayLastWords ==
  /\ UNCHANGED auxVars
  /\ pc = "day_lastwords"
  /\ asked' = Range(dead_at_night)
  /\ di' = 1
  /\ pc' = "day_hunter"
  /\ UNCHANGED << gameVars, nightVars, wolfVars,
                  dead_at_night, day_votes, pk_ids, pk_votes, out_id, shot_id, nvote >>

\* whether the day loop over dead_at_night lets seat pid shoot
DayHunterShoots(pid) == role[pid] = HUNTER

\* position after iteration i of the hunter loop over dead_at_night
AfterHunterLoop(i) == IF i >= Len(dead_at_night) THEN "day_check1" ELSE "day_hunter"

\* one iteration of the hunter loop over dead_at_night: _hunter_action
DayHunter ==
  /\ UNCHANGED hunterFrame
  /\ pc = "day_hunter"
  /\ LET pid == dead_at_night[di]
     IN IF DayHunterShoots(pid)
          THEN /\ IF HunterOptions(pid) # {}
                    THEN /\ \E resp \in Replies :
                              /\ shot_id' = ChoiceIn(resp, HunterOptions(pid))
                              /\ HunterCalled(pid, ChoiceIn(resp, HunterOptions(pid)))
                         /\ asked' = { pid }
                    ELSE /\ shot_id' = None
                         /\ asked' = {}
                         /\ UNCHANGED hunterVars
               /\ pc' = "day_hunter_shot"
               /\ UNCHANGED di
          ELSE /\ di' = di + 1
               /\ pc' = AfterHunterLoop(di)
               /\ asked' = {}
               /\ UNCHANGED << shot_id, hunterVars >>
  /\ UNCHANGED << gameVars, nightVars, wolfVars,
                  dead_at_night, day_votes, pk_ids, pk_votes, out_id, nvote >>

\* "if shot_id: update_status(False)" of the loop over dead_at_night
DayHunterShot ==
  /\ UNCHANGED auxVars
  /\ pc = "day_hunter_shot"
  /\ is_alive' = IF shot_id # None THEN Kill({ shot_id }) ELSE is_alive
  /\ shot_id' = None
  /\ di' = di + 1
  /\ asked' = {}
  /\ pc' = AfterHunterLoop(di)
  /\ UNCHANGED << role, turn, game_over, winner, poison_used, ret,
                  nightVars, wolfVars,
                  dead_at_night, day_votes, pk_ids, pk_votes, out_id, nvote >>

\* the win check that closes the announcement of the night's dead
DayCheck1 ==
  /\ UNCHANGED auxVars
  /\ pc = "day_check1"
  /\ CheckWinStep("day_discuss")
  /\ UNCHANGED << nightVars, wolfVars, dayVars >>

\* a discussion in which every seat is asked to speak
SpeakersAll == set_iter(Seats)

\* alive_ids = self.get_alive_players(), the speakers of the discussion
Speakers == set_iter(get_alive_players)

\* broadcast(message) for each of msgs in turn: receive_message on every
\* living seat, the speaker included
Broadcast(msgs) ==
  [ p \in Seats |-> IF is_alive[p] THEN heard[p] \o msgs ELSE heard[p] ]

\* no sequential step is in progress: speeches and heard hold nothing
StepClosed ==
  /\ speeches' = << >>
  /\ heard' = [ p \in Seats |-> << >> ]

\* speeches = []: the discussion starts with no statement collected
DayDiscuss ==
  /\ UNCHANGED sideVars
  /\ pc = "day_discuss"
  /\ StepClosed
  /\ asked' = {}
  /\ pc' = "day_speak"
  /\ UNCHANGED << gameVars, nightVars, wolfVars, dayVars >>

\* one iteration of "for pid in alive_ids": the seat speaks and its
\* statement is appended to speeches; no history but its own changes
DaySpeak ==
  /\ UNCHANGED sideVars
  /\ pc = "day_speak"
  /\ Len(speeches) < Len(Speakers)
  /\ speeches' = Append(speeches, Speakers[Len(speeches) + 1])
  /\ asked' = { Speakers[Len(speeches) + 1] }
  /\ UNCHANGED << heard, pc >>
  /\ UNCHANGED << gameVars, nightVars, wolfVars, dayVars >>

\* "for pid, statement in speeches: self.broadcast(...)" after the loop
DayBroadcast ==
  /\ UNCHANGED sideVars
  /\ pc = "day_speak"
  /\ Len(speeches) >= Len(Speakers)
  /\ heard' = Broadcast(speeches)
  /\ asked' = {}
  /\ pc' = "day_check2"
  /\ UNCHANGED speeches
  /\ UNCHANGED << gameVars, nightVars, wolfVars, dayVars >>

\* the win check after the discussion; the discussion is over
DayCheck2 ==
  /\ UNCHANGED sideVars
  /\ StepClosed
  /\ pc = "day_check2"
  /\ CheckWinStep("day_vote")
  /\ UNCHANGED << nightVars, wolfVars, dayVars >>

\* votes[pid] of one reply: the target if it is an option, else -1
VoteOf(resp, options) ==
  LET p == ParseInt(resp)
  IN IF p.ok /\ p.val \in options THEN p.val ELSE -1

\* results = await asyncio.gather(*tasks) stands outside any try block: an
\* exception of one act leaves gather, run_day_phase and run
GatherRaises(replies) == \E v \in DOMAIN replies : replies[v] = ActRaised

\* the concurrent day vote over the living seats
DayVote ==
  /\ UNCHANGED auxVars
  /\ pc = "day_vote"
  /\ \E replies \in [get_alive_players -> Replies] :
       IF GatherRaises(replies)
         THEN /\ pc' = "aborted"
              /\ UNCHANGED << day_votes, nvote >>
         ELSE /\ day_votes' = [ v \in get_alive_players |->
                                  VoteOf(replies[v], get_alive_players) ]
              /\ nvote' = nvote + 1
              /\ pc' = "day_tally"
  /\ asked' = get_alive_players
  /\ UNCHANGED << gameVars, nightVars, wolfVars,
                  dead_at_night, di, pk_ids, pk_votes, out_id, shot_id >>

\* _count_votes(votes)
count_votes(vs) == [ t \in Range(vs) |-> CountOf(vs, t) ]

\* a tally that counts the abstentions as votes for a seat -1
WithAbstain(counts) == counts

\* counts = {k: v for k, v in counts.items() if k != -1}
WithoutAbstain(counts) == [ t \in DOMAIN counts \ { -1 } |-> counts[t] ]

\* the seats with the fewest votes
TopOfMin(counts) ==
  { t \in DOMAIN counts : \A u \in DOMAIN counts : counts[u] >= counts[t] }

\* top = [pid for pid, cnt in counts.items() if cnt == max(counts.values())]
TopOf(counts) ==
  { t \in DOMAIN counts : \A u \in DOMAIN counts : counts[u] <= counts[t] }

\* the tally of the votes vs: a single top seat is marked dead; several top
\* seats continue at onTie; no valid vote ends the day
Tally(vs, onTie) ==
  LET counts == WithoutAbstain(count_votes(vs))
      top == TopOf(counts)
  IN /\ IF DOMAIN vs # {} /\ DOMAIN counts # {}
          THEN IF Cardinality(top) = 1
                 THEN /\ out_id' = CHOOSE t \in top : TRUE
                      /\ is_alive' = Kill(top)
                      /\ pc' = "out_lastwords"
                      /\ UNCHANGED pk_ids
                 ELSE /\ pc' = onTie
                      /\ pk_ids' = IF onTie = "pk_speech" THEN top ELSE pk_ids
                      /\ UNCHANGED << out_id, is_alive >>
          ELSE /\ pc' = "run_turn"
               /\ UNCHANGED << out_id, is_alive, pk_ids >>
     /\ asked' = {}
     /\ UNCHANGED << role, turn, game_over, winner, poison_used, ret,
                     nightVars, wolfVars, dead_at_night, di, day_votes, pk_votes,
                     shot_id, nvote >>

\* the tally of the day vote; a tie enters PK
DayTally ==
  /\ UNCHANGED auxVars
  /\ pc = "day_tally"
  /\ Tally(day_votes, "pk_speech")

\* the keys of _count_votes(vs) among S in the order of the dict: a target
\* is inserted when the first voter, in seat order, names it
RECURSIVE counts_order(_, _)
counts_order(vs, S) ==
  IF S = {} THEN << >>
  ELSE LET first(t) == Min({ v \in DOMAIN vs : vs[v] = t })
           t0 == CHOOSE t \in S : \A u \in S : first(t) <= first(u)
       IN << t0 >> \o counts_order(vs, S \ { t0 })

\* pk_ids = top as a list: the tied seats in the order of the tally
PKSpeakers == counts_order(day_votes, pk_ids)

\* pk_speeches = []: the PK starts with no defence speech collected
PKSpeech ==
  /\ UNCHANGED sideVars
  /\ pc = "pk_speech"
  /\ StepClosed
  /\ asked' = {}
  /\ pc' = "pk_speak"
  /\ UNCHANGED << gameVars, nightVars, wolfVars, dayVars >>

\* one iteration of "for pid in pk_ids": the tied seat speaks and its
\* statement is appended to pk_speeches
PKSpeak ==
  /\ UNCHANGED sideVars
  /\ pc = "pk_speak"
  /\ Len(speeches) < Len(PKSpeakers)
  /\ speeches' = Append(speeches, PKSpeakers[Len(speeches) + 1])
  /\ asked' = { PKSpeakers[Len(speeches) + 1] }
  /\ UNCHANGED << heard, pc >>
  /\ UNCHANGED << gameVars, nightVars, wolfVars, dayVars >>

\* "for pid, statement in pk_speeches: self.broadcast(...)" after the loop
PKBroadcast ==
  /\ UNCHANGED sideVars
  /\ pc = "pk_speak"
  /\ Len(speeches) >= Len(PKSpeakers)
  /\ heard' = Broadcast(speeches)
  /\ asked' = {}
  /\ pc' = "pk_vote_start"
  /\ UNCHANGED speeches
  /\ UNCHANGED << gameVars, nightVars, wolfVars, dayVars >>

\* pk_votes = {}; alive_ids = self.get_alive_players(): the PK speeches are
\* over and the PK vote is prepared
PKVoteStart ==
  /\ UNCHANGED sideVars
  /\ pc = "pk_vote_start"
  /\ StepClosed
  /\ asked' = {}
  /\ day_votes' = EmptyMap
  /\ pc' = "pk_vote"
  /\ UNCHANGED << gameVars, nightVars, wolfVars,
                  dead_at_night, di, pk_ids, pk_votes, out_id, shot_id, nvote >>

\* the options a PK vote may name
PKOptionsAlive == get_alive_players

PKOptions == pk_ids

\* the concurrent PK vote: all living seats vote, options are pk_ids
PKVote ==
  /\ UNCHANGED auxVars
  /\ pc = "pk_vote"
  /\ \E replies \in [get_alive_players -> Replies] :
       IF GatherRaises(replies)
         THEN /\ pc' = "aborted"
              /\ UNCHANGED << pk_votes, nvote >>
         ELSE /\ pk_votes' = [ v \in get_alive_players |-> VoteOf(replies[v], PKOptions) ]
              /\ nvote' = nvote + 1
              /\ pc' = "pk_tally"
  /\ asked' = get_alive_players
  /\ UNCHANGED << gameVars, nightVars, wolfVars,
                  dead_at_night, di, day_votes, pk_ids, out_id, shot_id >>

\* the tally of the PK vote; a second tie ends the day
PKTally ==
  /\ UNCHANGED auxVars
  /\ pc = "pk_tally"
  /\ Tally(pk_votes, "run_turn")

\* the last words of the seat voted out
OutLastWords ==
  /\ UNCHANGED auxVars
  /\ pc = "out_lastwords"
  /\ asked' = { out_id }
  /\ day_votes' = EmptyMap
  /\ pk_votes' = EmptyMap
  /\ pc' = "out_hunter"
  /\ UNCHANGED << gameVars, nightVars, wolfVars,
                  dead_at_night, di, pk_ids, out_id, shot_id, nvote >>

\* a day that goes on to the next night without a win check
AfterEliminationUnchecked == "run_turn"

\* "if self.check_win_condition(): return" closes the elimination
AfterElimination == "day_check3"

\* the hunter check of the seat voted out: _hunter_action
OutHunter ==
  /\ UNCHANGED hunterFrame
  /\ pc = "out_hunter"
  /\ IF role[out_id] = HUNTER
       THEN /\ IF HunterOptions(out_id) # {}
                 THEN /\ \E resp \in Replies :
                           /\ shot_id' = ChoiceIn(resp, HunterOptions(out_id))
                           /\ HunterCalled(out_id, ChoiceIn(resp, HunterOptions(out_id)))
                      /\ asked' = { out_id }
                 ELSE /\ shot_id' = None
                      /\ asked' = {}
                      /\ UNCHANGED hunterVars
            /\ pc' = "out_shot"
       ELSE /\ asked' = {}
            /\ pc' = AfterElimination
            /\ UNCHANGED << shot_id, hunterVars >>
  /\ UNCHANGED << gameVars, nightVars, wolfVars,
                  dead_at_night, di, day_votes, pk_ids, pk_votes, out_id, nvote >>

\* "if shot_id: update_status(False)" after a vote
OutShot ==
  /\ UNCHANGED auxVars
  /\ pc = "out_shot"
  /\ is_alive' = IF shot_id # None THEN Kill({ shot_id }) ELSE is_alive
  /\ shot_id' = None
  /\ asked' = {}
  /\ pc' = AfterElimination
  /\ UNCHANGED << role, turn, game_over, winner, poison_used, ret,
                  nightVars, wolfVars,
                  dead_at_night, di, day_votes, pk_ids, pk_votes, out_id, nvote >>

\* the win check after an elimination; run_day_phase returns either way
DayCheck3 ==
  /\ UNCHANGED auxVars
  /\ pc = "day_check3"
  /\ CheckWinStep("run_turn")
  /\ UNCHANGED << nightVars, wolfVars, dayVars >>

NextDay ==
  \/ DayApply
  \/ DayLastWords
  \/ DayHunter
  \/ DayHunterShot
  \/ DayCheck1
  \/ DayDiscuss
  \/ DaySpeak
  \/ DayBroadcast
  \/ DayCheck2
  \/ DayVote
  \/ DayTally
  \/ PKSpeech
  \/ PKSpeak
  \/ PKBroadcast
  \/ PKVoteStart
  \/ PKVote
  \/ PKTally
  \/ OutLastWords
  \/ OutHunter
  \/ OutShot
  \/ DayCheck3

\* ---------------------------------------------------------------------
\* run
\* ---------------------------------------------------------------------
\* a loop that only the turn cap ends
LoopCondAlways(over) == TRUE

\* the condition of "while not self.game_over"
LoopCond(over) == ~over

\* the end of one loop body: turn += 1, the max_turns test, the loop test
RunTurn ==
  /\ UNCHANGED auxVars
  /\ pc = "run_turn"
  /\ turn' = turn + 1
  /\ IF turn + 1 > MaxTurns
       THEN /\ winner' = DRAW
            /\ pc' = "done"
       ELSE /\ winner' = winner
            /\ pc' = IF LoopCond(game_over) THEN "night_wolf" ELSE "done"
  /\ asked' = {}
  /\ dead_at_night' = << >> /\ di' = 1 /\ day_votes' = EmptyMap
  /\ pk_ids' = {} /\ pk_votes' = EmptyMap /\ out_id' = None /\ shot_id' = None
  /\ nvote' = 0
  /\ deaths' = << >>
  /\ UNCHANGED << role, is_alive, game_over, poison_used, ret, wolfVars,
                  target_id, save_id, antidote_used, poison_id, final_dead, ni >>

Next ==
  \/ NextWolf
  \/ NextNight
  \/ NextDay
  \/ RunTurn

Spec == Init /\ [][Next]_vars

\* ---------------------------------------------------------------------
\* the run in which every agent abstains on every action
\* ---------------------------------------------------------------------
\* the shuffles of 2 werewolves, 1 witch, 1 seer and 2 villagers
AbstainConfigs ==
  { cfg \in [1 .. 6 -> { WEREWOLF, WITCH, SEER, VILLAGER }] :
      /\ Cardinality({ s \in 1 .. 6 : cfg[s] = WEREWOLF }) = 2
      /\ Cardinality({ s \in 1 .. 6 : cfg[s] = WITCH }) = 1
      /\ Cardinality({ s \in 1 .. 6 : cfg[s] = SEER }) = 1
      /\ Cardinality({ s \in 1 .. 6 : cfg[s] = VILLAGER }) = 2 }

InitAbstain ==
  \E cfg \in AbstainConfigs :
    /\ EngineInit(cfg, [s \in DOMAIN cfg |-> TRUE], 1)
    /\ MemIdle
    /\ ActIdle
    /\ script = "abstain"

\* the steps of run() that such a run takes
NextAbstain ==
  \/ WolfStart
  \/ WolfBlind
  \/ WolfCheck
  \/ WolfAsk
  \/ WolfRoundEnd
  \/ WolfForce
  \/ WitchSave
  \/ WitchPoison
  \/ SeerAction
  \/ NightDeaths
  \/ NightReturn
  \/ DayApply
  \/ DayDiscuss
  \/ DaySpeak
  \/ DayBroadcast
  \/ DayCheck2
  \/ DayVote
  \/ DayTally
  \/ RunTurn

\* the single control thread of run() takes its next step whenever it has one
SpecAbstain == InitAbstain /\ [][NextAbstain]_vars /\ WF_vars(NextAbstain)

\* ---------------------------------------------------------------------
\* asyncio.gather: the blind wolf vote, the day vote and the PK vote as
\* concurrent tasks, one per participant
\* ---------------------------------------------------------------------
\* what the agents of a gathered step answer
GatherReplies == { IntText(1), IntText(2), "abc", ActRaised }

\* the tied seats of the PK votes that are run
PKSets == { { 1, 2 }, { 1, 2, 3 } }

\* the positions at which run_night_phase / run_day_phase gather tasks
StepPcs == { "wolf_blind", "day_vote", "pk_vote" }

\* tasks = [... for w in wolves] / [... for pid in alive_ids]: the seats of
\* the tasks in the order of the list handed to gather
Tasks == set_iter(DOMAIN agent_reply)

\* a step whose finished task shows its reply to every living seat
PublishToAll(s) == Broadcast(<< s >>)

\* what the end of act(...) of seat s puts into the histories of the other
\* seats: nothing, the reply goes to the seat's own memory and to the caller
Publish(s) == heard

\* the coroutine of seat s runs up to its await of generate_response: the
\* prompt, built from the action, the options and public_facts, is appended
\* to the seat's own memory
TaskStart(s) ==
  /\ pc \in StepPcs
  /\ s \in DOMAIN agent_reply
  /\ task_st[s] = "pending"
  /\ task_st' = [ task_st EXCEPT ![s] = "running" ]
  /\ asked' = asked \cup { s }
  /\ UNCHANGED << completion, agent_reply, pc >>
  /\ UNCHANGED << memVars, actVars, script, configVars, speechVars, hunterVars >>
  /\ UNCHANGED << gameVars, nightVars, wolfVars, dayVars >>

\* the reply of seat s arrives and its task ends; outside ask_wolf an
\* exception of act leaves gather at once
TaskFinish(s) ==
  /\ pc \in StepPcs
  /\ s \in DOMAIN agent_reply
  /\ task_st[s] = "running"
  /\ task_st' = [ task_st EXCEPT ![s] = "done" ]
  /\ completion' = Append(completion, s)
  /\ heard' = Publish(s)
  /\ pc' = IF agent_reply[s] = ActRaised /\ pc # "wolf_blind" THEN "aborted" ELSE pc
  /\ UNCHANGED << agent_reply, asked, speeches >>
  /\ UNCHANGED << memVars, actVars, script, configVars, hunterVars >>
  /\ UNCHANGED << gameVars, nightVars, wolfVars, dayVars >>

\* a gather that lists the results as the tasks finish
GatherResultsByCompletion ==
  [ i \in 1 .. Len(completion) |->
      [pid |-> completion[i], resp |-> agent_reply[completion[i]]] ]

\* results = await asyncio.gather(*tasks): one result per task, in the order
\* of the tasks; pid is the seat whose agent produced the reply
GatherResults ==
  [ i \in 1 .. Len(Tasks) |-> [pid |-> Tasks[i], resp |-> agent_reply[Tasks[i]]] ]

\* "for pid, target in results: if target is not None: votes[pid] = target",
\* each result being the pair ask_wolf returned
BlindVotes(results, valid_targets) ==
  LET voted == { i \in DOMAIN results :
                   AskWolfTarget(results[i].resp, valid_targets) # None }
  IN [ pid \in { results[i].pid : i \in voted } |->
         AskWolfTarget(results[CHOOSE i \in voted : results[i].pid = pid].resp,
                       valid_targets) ]

\* "for pid, resp in zip(alive_ids, results)": the i-th reply is the vote of
\* the i-th seat of alive_ids
ZipVotes(alive_ids, results, options) ==
  [ pid \in Range(alive_ids) |->
      VoteOf(results[CHOOSE i \in DOMAIN alive_ids : alive_ids[i] = pid].resp, options) ]

\* gather returns when every task has ended; the caller builds its votes
GatherReturn ==
  /\ pc \in StepPcs
  /\ \A s \in DOMAIN agent_reply : task_st[s] = "done"
  /\ CASE pc = "wolf_blind" ->
            /\ votes' = BlindVotes(GatherResults, get_alive_players)
            /\ pc' = "wolf_check"
            /\ UNCHANGED << day_votes, pk_votes, nvote >>
       [] pc = "day_vote" ->
            /\ day_votes' = ZipVotes(Tasks, GatherResults, get_alive_players)
            /\ nvote' = nvote + 1
            /\ pc' = "day_tally"
            /\ UNCHANGED << votes, pk_votes >>
       [] pc = "pk_vote" ->
            /\ pk_votes' = ZipVotes(Tasks, GatherResults, PKOptions)
            /\ nvote' = nvote + 1
            /\ pc' = "pk_tally"
            /\ UNCHANGED << votes, day_votes >>
  /\ UNCHANGED << asked, current_round_votes, round_idx, wi, context, solicited >>
  /\ UNCHANGED << dead_at_night, di, pk_ids, out_id, shot_id >>
  /\ UNCHANGED << gatherVars, memVars, actVars, script, configVars, speechVars, hunterVars >>
  /\ UNCHANGED << gameVars, nightVars >>

NextGather ==
  \/ \E s \in Seats : TaskStart(s)
  \/ \E s \in Seats : TaskFinish(s)
  \/ GatherReturn
  \/ WolfCheck
  \/ DayTally
  \/ PKTally

\* the states in which gather has just been called: the blind vote of the
\* first night, or a vote of a day that no win check has ended
InitGather ==
  \E at \in StepPcs :
    \E cfg \in (IF at = "wolf_blind" THEN WolfConfigs ELSE GameConfigs) :
      \E alive \in [DOMAIN cfg -> BOOLEAN] :
        \E pk \in (IF at = "pk_vote" THEN PKSets ELSE { {} }) :
          LET w == { s \in DOMAIN cfg : alive[s] /\ cfg[s] = WEREWOLF }
              g == { s \in DOMAIN cfg : alive[s] /\ cfg[s] # WEREWOLF }
              participants == IF at = "wolf_blind" THEN w ELSE w \cup g
          IN /\ IF at = "wolf_blind"
                  THEN w # {} /\ \A s \in DOMAIN cfg : alive[s]
                  ELSE w # {} /\ Cardinality(w) < Cardinality(g)
             /\ pk \subseteq w \cup g
             /\ EngineInitAt(cfg, alive, 1, at, pk)
             /\ ConfigIdle
             /\ MemIdle
             /\ ActIdle
             /\ script = "free"
             /\ agent_reply \in [participants -> GatherReplies]
             /\ task_st = [ s \in DOMAIN cfg |->
                              IF s \in participants THEN "pending" ELSE "none" ]
             /\ completion = << >>

SpecGather == InitGather /\ [][NextGather]_vars

\* ---------------------------------------------------------------------
\* load_config: the model list is validated against the role counts
\* ---------------------------------------------------------------------
\* the longest model list that is loaded
MaxModels == 3

\* the largest count of one role that is loaded
MaxCount == 1

\* the fields of RoleConfig
RoleNames == { "werewolf", "witch", "seer", "hunter", "villager" }

\* RoleConfig declares plain ints: nothing keeps a count from being negative
RoleCounts == -1 .. MaxCount

\* AppConfig.models: each ModelConfig reduced to its disabled flag
ModelLists ==
  UNION { [1 .. n -> [disabled : BOOLEAN]] : n \in 0 .. MaxModels }

\* active_models = [m for m in config.models if not m.disabled]
active_models(ms) == SelectSeq(ms, LAMBDA m : ~m.disabled)

\* roles.werewolf + roles.witch + roles.seer + roles.hunter + roles.villager
total_players(r) ==
  r["werewolf"] + r["witch"] + r["seer"] + r["hunter"] + r["villager"]

\* "for i in range(len(config.models) - 1, -1, -1)": from position i down,
\* every enabled model is disabled until disabled_count reaches extra_count
RECURSIVE disable_from(_, _, _, _)
disable_from(ms, i, disabled_count, extra_count) ==
  IF i < 1 THEN ms
  ELSE IF ~ms[i].disabled
    THEN LET ms2 == [ ms EXCEPT ![i] = [disabled |-> TRUE] ]
         IN IF disabled_count + 1 >= extra_count
              THEN ms2
              ELSE disable_from(ms2, i - 1, disabled_count + 1, extra_count)
    ELSE disable_from(ms, i - 1, disabled_count, extra_count)

\* the validation of load_config: ValueError when too few models are
\* enabled, else the surplus is disabled and the config is returned
load_config ==
  /\ config_pc = "loading"
  /\ LET active == Len(active_models(models))
         total == total_players(roles)
     IN IF active < total
          THEN /\ config_pc' = "rejected"
               /\ UNCHANGED models
          ELSE /\ config_pc' = "returned"
               /\ models' = IF active > total
                               THEN disable_from(models, Len(models), 0, active - total)
                               ELSE models
  /\ UNCHANGED roles
  /\ UNCHANGED << coreVars, gatherVars, memVars, actVars >>

\* a configuration file has been parsed into an AppConfig
InitConfig ==
  /\ EngineInitAt(<< VILLAGER >>, << TRUE >>, 1, "night_wolf", {})
  /\ GatherIdle(<< VILLAGER >>)
  /\ MemIdle
  /\ ActIdle
  /\ script = "free"
  /\ models \in ModelLists
  /\ roles \in [RoleNames -> RoleCounts]
  /\ config_pc = "loading"

SpecConfig == InitConfig /\ [][load_config]_vars

\* =====================================================================
\* LLMClient.generate_response, Player.act and the caller's int()
\* (src/src/llm/client.py, src/src/core/player.py, src/src/core/game.py)
\* A text is a sequence of characters.
\* =====================================================================
\* longest raw reply of the modelled runs, in characters
MaxLen == 3

\* largest config.max_retries of the modelled runs
MaxRetries == 2

\* the characters of the raw replies: a letter, the sign, two digits, the
\* line break
Alphabet == { "a", "-", "3", "7", "\n" }

Digits == { "0", "1", "2", "3", "4", "5", "6", "7", "8", "9" }

DigitVal(c) ==
  CASE c = "0" -> 0 [] c = "1" -> 1 [] c = "2" -> 2 [] c = "3" -> 3
    [] c = "4" -> 4 [] c = "5" -> 5 [] c = "6" -> 6 [] c = "7" -> 7
    [] c = "8" -> 8 [] OTHER -> 9

\* the characters str.strip() removes
Whitespace == { " ", "\n" }

\* JSON tokens of the structured replies: the key "action" with its colon
\* and a string value
ActionKey == "\"action\":"
StringValue == "\"a\""

\* structured replies: {}, {"action": 3}, {"action": 7}, {"action": "a"}
JsonObjects ==
  { << "{", "}" >>,
    << "{", ActionKey, "3", "}" >>,
    << "{", ActionKey, "7", "}" >>,
    << "{", ActionKey, StringValue, "}" >> }

TextsUpTo(n) == UNION { [1 .. k -> Alphabet] : k \in 0 .. n }

\* replies of the documented examples: no integer; a trailing 7 among other
\* digits in prose; a reason with a digit, a line break, then the number
ExampleReplies ==
  { << "a", "b", "c" >>,
    << "a", "3", "a", "7" >>,
    << "3", "a", "\n", "7" >> }

\* what the transport can deliver as the content of a completion
RawReplies == TextsUpTo(MaxLen) \cup JsonObjects \cup ExampleReplies

\* str(e) of the exceptions of the transport: without and with digits
ErrorMessages == { << "a" >>, << "a", " ", "3" >> }

\* the prefix of f"Error: {str(e)}"
ErrorPrefix == << "E", "r", "r", "o", "r", ":", " " >>

\* the outputs of the judge model
JudgeReplies == { << "7" >>, << "a" >>, << "3", "a", "7" >> }

\* the legal target lists passed to act
OptionSets == { { 3 }, { 3, 7 } }

\* str.strip()
RECURSIVE Strip(_)
Strip(t) ==
  IF t = << >> THEN t
  ELSE IF t[1] \in Whitespace THEN Strip(Tail(t))
  ELSE IF t[Len(t)] \in Whitespace THEN Strip(SubSeq(t, 1, Len(t) - 1))
  ELSE t

IsDigit(c) == c \in Digits

\* t is a nonempty run of digits with an optional leading "-"
IsIntLiteral(t) ==
  LET d == IF t # << >> /\ t[1] = "-" THEN Tail(t) ELSE t
  IN d # << >> /\ \A i \in 1 .. Len(d) : IsDigit(d[i])

RECURSIVE DigitsValue(_)
DigitsValue(d) ==
  IF d = << >> THEN 0
  ELSE 10 * DigitsValue(SubSeq(d, 1, Len(d) - 1)) + DigitVal(d[Len(d)])

\* int(text): surrounding whitespace is ignored; ok = FALSE is ValueError
ToInt(text) ==
  LET t == Strip(text)
  IN IF IsIntLiteral(t)
       THEN [ok |-> TRUE,
             val |-> IF t[1] = "-" THEN 0 - DigitsValue(Tail(t)) ELSE DigitsValue(t)]
       ELSE [ok |-> FALSE, val |-> 0]

\* the end of the greedy match of \d+ that starts at position d
RECURSIVE DigitRunEnd(_, _)
DigitRunEnd(t, d) ==
  IF d < Len(t) /\ IsDigit(t[d + 1]) THEN DigitRunEnd(t, d + 1) ELSE d

\* the lookahead (?!.*\d) at position j: "." does not match a line break,
\* so only the rest of the line is searched for a digit
NoDigitAhead(t, j) ==
  ~ \E k \in j .. Len(t) :
      IsDigit(t[k]) /\ \A m \in j .. (k - 1) : t[m] # "\n"

\* the ends at which (-?\d+)(?!.*\d) can match when tried at position i:
\* every end of a prefix of the digit run that passes the lookahead
PatternEnds(t, i) ==
  LET d == IF t[i] = "-" THEN i + 1 ELSE i
  IN IF d <= Len(t) /\ IsDigit(t[d])
       THEN { e \in d .. DigitRunEnd(t, d) : NoDigitAhead(t, e + 1) }
       ELSE {}

Max(S) == CHOOSE x \in S : \A y \in S : y <= x

\* re.search(r"(-?\d+)(?!.*\d)", t): the leftmost position with a match and
\* the longest match there; found = FALSE when there is none
PatternSearch(t) ==
  LET starts == { i \in 1 .. Len(t) : PatternEnds(t, i) # {} }
  IN IF starts = {} THEN [found |-> FALSE, text |-> << >>]
     ELSE [found |-> TRUE,
           text |-> SubSeq(t, Min(starts), Max(PatternEnds(t, Min(starts))))]

\* re.search(r"(-?\d+)", t): the first integer of t
FirstIntSearch(t) ==
  LET starts == { i \in 1 .. Len(t) :
                    LET d == IF t[i] = "-" THEN i + 1 ELSE i
                    IN d <= Len(t) /\ IsDigit(t[d]) }
  IN IF starts = {} THEN [found |-> FALSE, text |-> << >>]
     ELSE LET i == Min(starts)
              d == IF t[i] = "-" THEN i + 1 ELSE i
          IN [found |-> TRUE, text |-> SubSeq(t, i, DigitRunEnd(t, d))]

\* json.loads on the cleaned reply: a number, one of the objects, or
\* JSONDecodeError; text is what str(data.get("action", -1)) gives
json_loads(t) ==
  IF IsIntLiteral(t) THEN [kind |-> "number", text |-> t]
  ELSE IF Len(t) >= 2 /\ t[1] = "{" /\ t[Len(t)] = "}"
    THEN IF Len(t) = 2 THEN [kind |-> "object", text |-> << "-", "1" >>]
         ELSE IF Len(t) >= 4 /\ t[2] = ActionKey
                   /\ IsIntLiteral(SubSeq(t, 3, Len(t) - 1))
           THEN [kind |-> "object", text |-> SubSeq(t, 3, Len(t) - 1)]
         ELSE IF Len(t) = 4 /\ t[2] = ActionKey /\ t[3] = StringValue
           THEN [kind |-> "object", text |-> << "a" >>]
         ELSE [kind |-> "error", text |-> << >>]
    ELSE [kind |-> "error", text |-> << >>]

\* the judge step and the pattern fallback of act on the stripped reply
ActFallback(response, jdg) ==
  LET jm == FirstIntSearch(Strip(jdg.resp))
      pm == PatternSearch(response)
  IN IF jdg.on /\ ~jdg.raises /\ jm.found
       THEN [raised |-> FALSE, via |-> "judge", text |-> jm.text]
       ELSE IF pm.found
         THEN [raised |-> FALSE, via |-> "pattern", text |-> pm.text]
         ELSE [raised |-> FALSE, via |-> "raw", text |-> response]

\* Player.act on the text the client returned: the text act returns, the
\* stage that produced it, or raised = TRUE when an exception leaves act
\* (data.get on a JSON value that is not an object: AttributeError)
Act(raw, use_json, jdg) ==
  LET response == Strip(raw)
      data == json_loads(Strip(response))
  IN IF use_json /\ data.kind = "number"
       THEN [raised |-> TRUE, via |-> "json", text |-> << >>]
       ELSE IF use_json /\ data.kind = "object"
         THEN [raised |-> FALSE, via |-> "json", text |-> data.text]
         ELSE ActFallback(response, jdg)

\* a caller that takes any integer
RecordUnchecked(text, opts, invalid) ==
  IF ToInt(text).ok THEN ToInt(text).val ELSE invalid

\* the caller's try block: int(resp), the test against the options, and the
\* value for everything else (-1 in the votes, None elsewhere)
Record(text, opts, invalid) ==
  IF ToInt(text).ok /\ ToInt(text).val \in opts THEN ToInt(text).val ELSE invalid

\* a retry loop that makes one attempt more
CanAttemptOneMore(n, r) == n <= r

\* for attempt in range(retries): the loop body runs while attempt < retries
CanAttempt(n, r) == n < r

\* longest text a stream delivers before it raises
MaxPartial == 1

\* what a stream that raises has passed to stream_callback before
PartialDeliveries == TextsUpTo(MaxPartial)

\* a callback that would start afresh at every attempt
StreamCallbackFresh(sofar, content) == content

\* stream_callback(content) of _generate_with_stream: full_response += chunk
StreamCallback(sofar, content) == sofar \o content

\* one attempt of the transport succeeds: every chunk goes to the callback
\* and into full_content, which is returned at once
LLMAttemptOk ==
  /\ act_pc = "generate"
  /\ CanAttempt(attempt, retries)
  /\ \E t \in RawReplies :
       /\ transport' = [ok |-> TRUE, text |-> t]
       /\ llm_response' = t
       /\ delivered' = StreamCallback(delivered, t)
  /\ attempt' = attempt + 1
  /\ act_pc' = "generated"
  /\ UNCHANGED << json_mode, judge, retries, last_exception, act_options, caller,
                  act_ret, recorded, engineVars, memVars >>

\* one attempt of the transport raises, at create or after some chunks went
\* to the callback: back off and try again, or return the error text after
\* the last attempt
LLMAttemptFail ==
  /\ act_pc = "generate"
  /\ CanAttempt(attempt, retries)
  /\ \E e \in ErrorMessages :
       /\ transport' = [ok |-> FALSE, text |-> e]
       /\ last_exception' = e
       /\ IF attempt < retries - 1
            THEN /\ act_pc' = "generate"
                 /\ UNCHANGED llm_response
            ELSE /\ act_pc' = "generated"
                 /\ llm_response' = ErrorPrefix \o e
  /\ \E part \in PartialDeliveries : delivered' = StreamCallback(delivered, part)
  /\ attempt' = attempt + 1
  /\ UNCHANGED << json_mode, judge, retries, act_options, caller, act_ret, recorded,
                  engineVars, memVars >>

\* the loop ends without a return: return f"Error: {str(last_exception)}"
LLMLoopEnd ==
  /\ act_pc = "generate"
  /\ ~CanAttempt(attempt, retries)
  /\ llm_response' = ErrorPrefix \o last_exception
  /\ act_pc' = "generated"
  /\ UNCHANGED << json_mode, judge, retries, attempt, transport, last_exception,
                  act_options, caller, delivered,
                  act_ret, recorded, engineVars, memVars >>

\* act parses the response
ActParse ==
  /\ act_pc = "generated"
  /\ act_ret' = Act(llm_response, json_mode, judge)
  /\ act_pc' = IF Act(llm_response, json_mode, judge).raised THEN "act_raised" ELSE "act_returned"
  /\ delivered' = << >>
  /\ UNCHANGED << json_mode, judge, retries, attempt, transport, last_exception,
                  llm_response, act_options,
                  caller, recorded, engineVars, memVars >>

\* the caller records the decision: the votes of the day vote and the PK
\* vote are gathered outside any try block; every other caller awaits act
\* inside try/except
CallerRecord ==
  /\ act_pc \in { "act_raised", "act_returned" }
  /\ IF act_ret.raised
       THEN IF caller = "vote"
              THEN /\ act_pc' = "aborted"
                   /\ UNCHANGED recorded
              ELSE /\ act_pc' = "recorded"
                   /\ recorded' = None
       ELSE /\ act_pc' = "recorded"
            /\ recorded' = Record(act_ret.text, act_options, IF caller = "vote" THEN -1 ELSE None)
  /\ UNCHANGED << json_mode, judge, retries, attempt, transport, last_exception,
                  llm_response, act_options, delivered,
                  caller, act_ret, engineVars, memVars >>

NextAct ==
  \/ LLMAttemptOk
  \/ LLMAttemptFail
  \/ LLMLoopEnd
  \/ ActParse
  \/ CallerRecord

\* the judge of a Player: none, one that answers, one that raises
JudgeChoices ==
  { [on |-> FALSE, raises |-> FALSE, resp |-> << >>],
    [on |-> TRUE, raises |-> TRUE, resp |-> << >>] }
  \cup { [on |-> TRUE, raises |-> FALSE, resp |-> r] : r \in JudgeReplies }

\* one call of act: the config of the client, the judge, the options and
\* the caller are free
InitAct ==
  /\ EngineInit(<< VILLAGER >>, << TRUE >>, 1)
  /\ MemIdle
  /\ json_mode \in BOOLEAN
  /\ judge \in JudgeChoices
  /\ retries \in 0 .. MaxRetries
  /\ act_options \in OptionSets
  /\ caller \in { "vote", "guarded" }
  /\ attempt = 0
  /\ transport = [ok |-> FALSE, text |-> << >>]
  /\ last_exception = NoneText
  /\ llm_response = << >>
  /\ act_ret = [raised |-> FALSE, via |-> "none", text |-> << >>]
  /\ recorded = None
  /\ act_pc = "generate"
  /\ delivered = << >>
  /\ script = "free"

SpecAct == InitAct /\ [][NextAct]_vars

\* =====================================================================
\* Player: the memory and its token budget (src/src/core/player.py)
\* =====================================================================
\* longest memory of the modelled runs
MaxMem == 5

\* largest max_memory_tokens of the modelled runs
MaxBudget == 4

\* largest token count of one message
MaxMsgTokens == 2

\* token counts of the system prompt that _init_memory appends
SysTokens == 1 .. MaxMsgTokens

\* a memory entry: its role and count_tokens([msg]) of its content
Entry(r, n) == [role |-> r, tokens |-> n]

\* the sum of count_tokens([m]) over the entries of msgs
RECURSIVE TotalTokens(_)
TotalTokens(msgs) ==
  IF msgs = << >> THEN 0
  ELSE msgs[Len(msgs)].tokens + TotalTokens(SubSeq(msgs, 1, Len(msgs) - 1))

\* a loop that passes over a message that does not fit and goes on
RECURSIVE kept_msgs_skip(_, _, _)
kept_msgs_skip(recent_memory, current_tokens, max) ==
  IF recent_memory = << >> THEN << >>
  ELSE LET msg == recent_memory[Len(recent_memory)]
           older == SubSeq(recent_memory, 1, Len(recent_memory) - 1)
       IN IF current_tokens + msg.tokens > max
            THEN kept_msgs_skip(older, current_tokens, max)
            ELSE kept_msgs_skip(older, current_tokens + msg.tokens, max) \o << msg >>

\* the loop "for msg in reversed(recent_memory)": the newest messages are
\* kept until one does not fit, where the loop breaks
RECURSIVE kept_msgs(_, _, _)
kept_msgs(recent_memory, current_tokens, max) ==
  IF recent_memory = << >> THEN << >>
  ELSE LET msg == recent_memory[Len(recent_memory)]
       IN IF current_tokens + msg.tokens > max
            THEN << >>
            ELSE kept_msgs(SubSeq(recent_memory, 1, Len(recent_memory) - 1),
                           current_tokens + msg.tokens, max) \o << msg >>

\* a trimming that gives up the system prompt when it does not fit
manage_memory_drop(mem, max) ==
  IF Len(mem) <= 1 THEN mem
  ELSE IF mem[1].tokens > max THEN << >>
  ELSE << mem[1] >> \o kept_msgs(SubSeq(mem, 2, Len(mem)), mem[1].tokens, max)

\* _manage_memory: the memory it leaves
manage_memory(mem, max) ==
  IF Len(mem) <= 1 THEN mem
  ELSE << mem[1] >> \o kept_msgs(SubSeq(mem, 2, Len(mem)), mem[1].tokens, max)

\* receive_message appends one user entry
receive_message ==
  /\ mem_last # "idle"
  /\ Len(memory) < MaxMem
  /\ \E n \in 1 .. MaxMsgTokens : memory' = Append(memory, Entry("user", n))
  /\ mem_last' = "receive"
  /\ UNCHANGED << max_tokens, before_len, calls_since_trim, engineVars, actVars >>

\* a call of _manage_memory
ManageMemory ==
  /\ mem_last # "idle"
  /\ before_len' = Len(memory)
  /\ memory' = manage_memory(memory, max_tokens)
  /\ mem_last' = "manage"
  /\ calls_since_trim' = 0
  /\ UNCHANGED << max_tokens, engineVars, actVars >>

\* _generate_with_stream: trim, append the prompt, append the response
GenerateWithStream ==
  /\ mem_last # "idle"
  /\ Len(manage_memory(memory, max_tokens)) + 2 <= MaxMem
  /\ \E p \in 1 .. MaxMsgTokens, r \in 0 .. MaxMsgTokens :
       memory' = manage_memory(memory, max_tokens)
                   \o << Entry("user", p), Entry("assistant", r) >>
  /\ before_len' = Len(memory)
  /\ mem_last' = "generate"
  /\ calls_since_trim' = 1
  /\ UNCHANGED << max_tokens, engineVars, actVars >>

\* _generate_with_reasoning: _generate_with_stream on the reasoning prompt,
\* then the final prompt and the final response
GenerateWithReasoning ==
  /\ mem_last # "idle"
  /\ Len(manage_memory(memory, max_tokens)) + 4 <= MaxMem
  /\ \E p \in 1 .. MaxMsgTokens, r \in 0 .. MaxMsgTokens, r2 \in 0 .. MaxMsgTokens :
       memory' = manage_memory(memory, max_tokens)
                   \o << Entry("user", p), Entry("assistant", r),
                         Entry("user", 1), Entry("assistant", r2) >>
  /\ before_len' = Len(memory)
  /\ mem_last' = "generate"
  /\ calls_since_trim' = 2
  /\ UNCHANGED << max_tokens, engineVars, actVars >>

NextMem ==
  \/ receive_message
  \/ ManageMemory
  \/ GenerateWithStream
  \/ GenerateWithReasoning

\* Player.__init__: the memory holds the system prompt; the budget is any
\* value the config can carry
InitMem ==
  /\ EngineInit(<< VILLAGER >>, << TRUE >>, 1)
  /\ \E n \in SysTokens : memory = << Entry("system", n) >>
  /\ max_tokens \in 0 .. MaxBudget
  /\ mem_last = "init"
  /\ before_len = 0
  /\ calls_since_trim = 0
  /\ ActIdle
  /\ script = "free"

SpecMem == InitMem /\ [][NextMem]_vars

\* =====================================================================
\* Properties
\* =====================================================================
\* the wolves are not outnumbered
Dominance ==
  AliveWolves # {} /\ Cardinality(AliveWolves) >= Cardinality(AliveGood)

\* seat s has strictly more votes in vs than every other seat
StrictPlurality(vs, s) ==
  \A u \in Seats \ { s } : CountOf(vs, u) < CountOf(vs, s)

\* the seats that share the highest non-abstain count of vs
TiedTop(vs) ==
  { s \in Seats : /\ CountOf(vs, s) >= 1
                  /\ \A u \in Seats : CountOf(vs, u) <= CountOf(vs, s) }

\* the targets with the highest count in a wolf votes dict
MaxCountTargets(vs) ==
  { t \in Range(vs) : \A u \in Range(vs) : CountOf(vs, u) <= CountOf(vs, t) }

\* the first wolf, in wolf order, that voted t
FirstVoter(vs, t) == Min({ w \in DOMAIN vs : vs[w] = t })

\* C1: after the tally of a day vote in which one seat has strictly more
\* votes than every other seat, that seat is the seat voted out, it is dead,
\* and every other voter is still alive
C1_PluralityEliminated ==
  \A s \in Seats :
    (pc # "day_tally" /\ DOMAIN day_votes # {} /\ StrictPlurality(day_votes, s))
      => /\ pc = "out_lastwords"
         /\ out_id = s
         /\ get_alive_players = DOMAIN day_votes \ { s }

C1_Witness ==
  /\ pc = "out_lastwords"
  /\ nvote = 1
  /\ out_id # None
  /\ StrictPlurality(day_votes, out_id)
  /\ ~is_alive[out_id]
  /\ \E u \in Seats \ { out_id } : CountOf(day_votes, u) >= 1
  /\ \E v \in DOMAIN day_votes : day_votes[v] = -1

\* C2: a tie of the day vote leads to the PK speeches with the tied seats
\* as options and nobody dead; every PK vote names a tied seat or -1; after
\* the PK tally a single top seat is voted out, and otherwise the day ends
\* with nobody voted out; a day holds at most two votes, and exactly two
\* when it entered PK
C2_PKOnce ==
  /\ (pc # "day_tally" /\ Cardinality(TiedTop(day_votes)) >= 2)
       => /\ pc \in { "pk_speech", "pk_speak", "pk_vote_start" }
          /\ pk_ids = TiedTop(day_votes)
          /\ out_id = None
          /\ get_alive_players = DOMAIN day_votes
  /\ DOMAIN pk_votes # {}
       => /\ Range(pk_votes) \subseteq pk_ids \cup { -1 }
          /\ DOMAIN pk_votes = get_alive_players \cup (IF out_id = None THEN {} ELSE { out_id })
          /\ nvote = 2
  /\ (pc # "pk_tally" /\ DOMAIN pk_votes # {})
       => IF \E s \in Seats : StrictPlurality(pk_votes, s)
            THEN /\ pc = "out_lastwords"
                 /\ StrictPlurality(pk_votes, out_id)
                 /\ get_alive_players = DOMAIN pk_votes \ { out_id }
            ELSE /\ pc = "run_turn"
                 /\ out_id = None
                 /\ get_alive_players = DOMAIN pk_votes
  /\ nvote <= 2
  /\ (pc = "run_turn" /\ pk_ids # {}) => nvote = 2

C2_Witness ==
  /\ pc = "run_turn"
  /\ nvote = 2
  /\ Cardinality(TiedTop(pk_votes)) >= 2
  /\ out_id = None
  /\ get_alive_players = DOMAIN pk_votes

\* C3: whenever the wolves are not outnumbered and an agent has just been
\* solicited, the game is already over with winner Werewolf
C3_DominanceImmediate ==
  (Dominance /\ asked # {}) => (game_over /\ winner = WOLF_WINS)

\* C4: when run() has ended and check_win_condition had set a winner, the
\* reported winner is a faction, not Draw
C4_DrawOnlyWithoutWinner ==
  (pc = "done" /\ game_over) => winner \in { GOOD_WINS, WOLF_WINS }

C6_WinIdempotent ==
  game_over => (check_win_condition.winner = winner /\ check_win_condition.game_over)

\* C7: once game_over is set the control thread is at the end of the loop
\* body or past the loop, and the last step solicited no agent
C7_NoStepAfterGameOver ==
  game_over => (pc \in { "run_turn", "done" } /\ asked = {})

C7_Witness ==
  pc = "done" /\ game_over /\ turn <= MaxTurns

\* C8: when all valid votes of the blind round or of a negotiation round
\* name the same target, the consensus check returns that target and starts
\* no further round
C8_Unanimity ==
  [][ (\A t \in Seats :
         (pc = "wolf_check" /\ DOMAIN votes # {} /\ \A w \in DOMAIN votes : votes[w] = t)
           => (pc' = "night_witch_save" /\ target_id' = t)) ]_vars

C8_Witness ==
  /\ pc = "night_witch_save"
  /\ round_idx >= 1 /\ round_idx < max_rounds
  /\ Cardinality(DOMAIN votes) >= 2
  /\ DOMAIN votes # AliveWolves
  /\ \A w \in DOMAIN votes : votes[w] = target_id

\* C9 (as claimed): a forced resolution returns a target with the highest
\* count of the final round, and among several the one voted first
C9_FirstVotedWins ==
  (pc = "night_witch_save" /\ Cardinality(Range(votes)) > 1)
    => /\ target_id \in MaxCountTargets(votes)
       /\ \A u \in MaxCountTargets(votes) :
            FirstVoter(votes, target_id) <= FirstVoter(votes, u)

\* C9 (amended): a forced resolution returns a target with the highest
\* count of the final round, and among several the one with the lowest
\* seat id, which is the first in the iteration of the set of targets
C9_MaxCountLowestId ==
  (pc = "night_witch_save" /\ Cardinality(Range(votes)) > 1)
    => /\ target_id \in MaxCountTargets(votes)
       /\ \A u \in MaxCountTargets(votes) : target_id <= u

C9_Witness ==
  /\ pc = "night_witch_save"
  /\ round_idx = max_rounds
  /\ Cardinality(MaxCountTargets(votes)) >= 2
  /\ target_id = Min(MaxCountTargets(votes))
  /\ \E u \in MaxCountTargets(votes) :
       FirstVoter(votes, u) < FirstVoter(votes, target_id)

\* C10: _werewolf_action returns None exactly when no wolf is alive or the
\* last of the max_rounds rounds collected no valid vote; any other return
\* value is a living seat
C10_NoTargetCases ==
  pc = "night_witch_save"
    => /\ (target_id = None) <=>
            (AliveWolves = {} \/ (round_idx = max_rounds /\ DOMAIN votes = {}))
       /\ target_id # None => target_id \in get_alive_players

C10_Witness ==
  /\ pc = "night_witch_save"
  /\ target_id = None
  /\ AliveWolves # {}
  /\ round_idx = max_rounds
  /\ \E s \in Seats : ~is_alive[s]

\* C11: after a call of _manage_memory the token counts of the retained
\* entries, the system entry included, sum to at most max_tokens
C11_BudgetRespected ==
  mem_last = "manage" => TotalTokens(memory) <= max_tokens

\* C12: the first entry of the memory is always the system entry of
\* _init_memory, and no other entry is a system entry; no step changes the
\* first entry; after a call of _manage_memory the memory is not longer
\* than before the call
C12_SystemEntryKept ==
  /\ [](mem_last # "idle" =>
          /\ Len(memory) >= 1
          /\ memory[1].role = "system"
          /\ \A i \in 2 .. Len(memory) : memory[i].role # "system"
          /\ (mem_last = "manage" => Len(memory) <= before_len))
  /\ [][mem_last # "idle" => memory'[1] = memory[1]]_vars

C12_Witness ==
  /\ mem_last = "manage"
  /\ Len(memory) < before_len
  /\ Len(memory) > 1
  /\ memory[1].role = "system"
  /\ memory[2].role = "assistant"

\* the last integer of a text, with its sign: the last maximal run of
\* digits and a "-" that stands directly before it
LastInteger(t) ==
  LET ends == { e \in 1 .. Len(t) : IsDigit(t[e]) }
      e == Max(ends)
      firsts == { d \in 1 .. e : \A k \in d .. e : IsDigit(t[k]) }
      d == Min(firsts)
  IN IF d > 1 /\ t[d - 1] = "-" THEN SubSeq(t, d - 1, e) ELSE SubSeq(t, d, e)

\* generate_response returned the error text of a failed transport
ReturnedSentinel ==
  /\ act_pc \notin { "idle", "generate" }
  /\ ~transport.ok
  /\ SubSeq(llm_response, 1, Len(ErrorPrefix)) = ErrorPrefix

\* the value a caller records when the reply names no legal target
Abstention == IF caller = "vote" THEN -1 ELSE None

\* C13 (as claimed): whatever act returns reads as a legal target of the
\* option set or as -1
C13_ActLegalOrAbstain ==
  act_pc = "act_returned"
    => /\ ToInt(act_ret.text).ok
       /\ ToInt(act_ret.text).val \in act_options \cup { -1 }

\* C13 (amended): act returns one text: the action field of a structured
\* reply, the integer the judge or the pattern found, or the stripped reply
\* itself when no stage found an integer; the caller records exactly
\* one value, a legal target that the returned text reads as, or else its
\* abstention value, and a returned text without an integer is an abstention
C13_RecordedLegalOrAbstain ==
  /\ (act_pc = "act_returned" /\ act_ret.via \in { "judge", "pattern" })
       => IsIntLiteral(act_ret.text)
  /\ (act_pc = "act_returned" /\ act_ret.via = "raw")
       => /\ act_ret.text = Strip(llm_response)
          /\ \A i \in 1 .. Len(act_ret.text) : ~IsDigit(act_ret.text[i])
  /\ act_pc = "recorded"
       => /\ recorded \in act_options \cup { Abstention }
          /\ recorded \in act_options
               => (~act_ret.raised /\ ToInt(act_ret.text).ok
                   /\ ToInt(act_ret.text).val = recorded)
          /\ (~act_ret.raised /\ ~ToInt(act_ret.text).ok) => recorded = Abstention

C13_Witness ==
  /\ act_pc = "recorded"
  /\ ~json_mode /\ ~judge.on
  /\ llm_response = << "a", "b", "c" >>
  /\ act_ret.text = << "a", "b", "c" >>
  /\ caller = "vote"
  /\ recorded = -1

\* C14: a text that the pattern fallback returns is the last integer of
\* the stripped reply
C14_LastInteger ==
  (act_pc = "act_returned" /\ act_ret.via = "pattern")
    => act_ret.text = LastInteger(Strip(llm_response))

\* C16: generate_response makes at most max_retries attempts; once it has
\* returned it makes no further attempt and its result stays; the result is
\* the content of the attempt that succeeded, and when no attempt succeeded
\* all max_retries attempts were made and the result starts with "Error: "
C16_RetryContract ==
  /\ [](act_pc # "idle" =>
          /\ attempt <= retries
          /\ act_pc # "generate" =>
               IF transport.ok
                 THEN llm_response = transport.text
                 ELSE /\ attempt = retries
                      /\ SubSeq(llm_response, 1, Len(ErrorPrefix)) = ErrorPrefix)
  /\ [][(act_pc # "idle" /\ act_pc # "generate")
          => (attempt' = attempt /\ llm_response' = llm_response)]_vars

C16_Witness ==
  /\ act_pc = "generated"
  /\ retries = MaxRetries
  /\ attempt = 2
  /\ transport.ok
  /\ last_exception # NoneText
  /\ llm_response = transport.text
  /\ llm_response # << >>

\* C17: when generate_response returned the error text and no judge is
\* configured, the caller records no legal target
C17_SentinelAbstains ==
  (act_pc = "recorded" /\ ReturnedSentinel /\ ~judge.on)
    => recorded \notin act_options

\* C15: no reply of an agent ends run() with an exception: the control
\* thread never leaves a phase by an exception
C15_NoAbort ==
  pc # "aborted"

\* C18: in a night after a night in which the witch saved the wolves'
\* target, the witch saves no target
C18_AntidoteOnce ==
  [][(pc = "night_witch_save" /\ antidote_used) => save_id' = None]_vars

\* C19: no hunter that the night's deaths record as killed by poison is
\* given a shot, neither in the night loop nor in the day loop over the
\* night's dead
C19_PoisonedHunterSilent ==
  \A h \in Seats :
    (role[h] = HUNTER /\ \E i \in 1 .. Len(deaths) : deaths[i] = << h, "poison" >>)
      => /\ ~(pc = "night_loop" /\ asked = { h })
         /\ ~(pc = "day_hunter_shot" /\ dead_at_night[di] = h)

\* C20: when every agent abstains on every action in a game of 2 wolves,
\* 1 witch, 1 seer and 2 villagers, no night records a death, nobody is
\* voted out, every seat stays alive, and run() ends after exactly MaxTurns
\* cycles of night and day with the winner Draw and no faction win
C20_AllAbstainDraw ==
  /\ [](/\ \A s \in Seats : is_alive[s]
        /\ deaths = << >> /\ dead_at_night = << >>
        /\ target_id = None /\ poison_id = None
        /\ out_id = None /\ shot_id = None
        /\ turn <= MaxTurns + 1
        /\ pc # "aborted"
        /\ pc = "done" => (winner = DRAW /\ ~game_over /\ turn = MaxTurns + 1)
        /\ pc # "done" => (winner = NoWinner /\ turn <= MaxTurns))
  /\ <>[](pc = "done")

C20_Witness ==
  /\ script = "abstain"
  /\ Cardinality(Seats) = 6
  /\ Cardinality(AliveWolves) = 2
  /\ pc = "done"
  /\ winner = DRAW
  /\ turn = MaxTurns + 1
  /\ \A s \in Seats : is_alive[s]

\* the seats of the hunter loops: the dead of the night and the seat voted out
JustDied(s) ==
  \/ pc \in { "day_hunter", "day_hunter_shot" } /\ s \in Range(dead_at_night)
  \/ pc \in { "out_hunter", "out_shot" } /\ s = out_id

\* C21 (as stated): once a seat is marked dead, no speak or act is called on
\* it again
C21_NoDeadSeatAsked == \A s \in asked : is_alive[s]

\* C21 (amended): a seat marked dead is asked only for its last words and,
\* when it is the hunter, for its shot, in the day step that marked it dead:
\* it is one of the night's dead or the seat just voted out; no dead seat is
\* asked in the negotiation, by the witch or seer steps, in the discussion,
\* in a vote or in the PK speeches
C21_DeadSeatOnlyLastWordsOrShot ==
  \A s \in asked : ~is_alive[s] => JustDied(s)

C21_Witness ==
  /\ pc = "day_hunter_shot"
  /\ \E s \in asked : ~is_alive[s] /\ role[s] = HUNTER /\ s \in Range(dead_at_night)

\* C22: in the discussion and in the PK speeches, when the k-th speaker is
\* asked, the statements of the k-1 earlier speakers of the step are in its
\* history, in the order they were issued
C22_SequentialVisibility ==
  [][ (pc \in { "day_speak", "pk_speak" } /\ Len(speeches') = Len(speeches) + 1)
        => (heard[speeches'[Len(speeches')]] = speeches) ]_vars

\* the positions of run_night_phase
NightPcs ==
  { "night_wolf", "wolf_blind", "wolf_check", "wolf_round", "wolf_force",
    "night_witch_save", "night_witch_poison", "night_seer", "night_deaths",
    "night_loop" }

\* C24: no step of run_night_phase (negotiation, witch, seer, the night
\* loop with the hunter's shot) changes the liveness flag of any seat
C24_NightKeepsLiveness ==
  [][ (pc \in NightPcs) => (is_alive' = is_alive) ]_vars

\* a night in which the hunter shot a seat has ended: both seats are in the
\* list handed to the day and both are still flagged alive
C24_Witness ==
  /\ pc = "day_start"
  /\ Len(dead_at_night) = 2
  /\ \E h \in Range(dead_at_night) : role[h] = HUNTER
  /\ \A s \in Range(dead_at_night) : is_alive[s]

\* C29: the poison is spent at most once in a game: a poison target is set
\* only while poison_used is false and sets it, poison_used is never reset,
\* and once it is set the witch is not asked to poison and no target is set
C29_PoisonOnce ==
  [][ /\ poison_used => poison_used'
      /\ (poison_id' # None /\ poison_id' # poison_id) => (~poison_used /\ poison_used')
      /\ (pc = "night_witch_poison" /\ poison_used)
            => (asked' = {} /\ poison_id' = None) ]_vars

\* the second night of a game whose living witch poisoned in the first: the
\* poison step has passed without a question
C29_Witness ==
  /\ turn = 2
  /\ pc = "night_seer"
  /\ poison_used
  /\ FirstOfType(WITCH) # None
  /\ is_alive[FirstOfType(WITCH)]
  /\ asked = {}
  /\ poison_id = None

\* C30: in one night the poison target is never the seat saved in that night
C30_PoisonNotSaved == ~(save_id # None /\ poison_id # None /\ save_id = poison_id)

\* the wolf asked last in the negotiation round in progress
AskedWolf == wolves[wi - 1]

\* what the claim says the context of wolf k holds: this round's choices of
\* the earlier wolves that voted validly, the previous round's choices of
\* the later wolves
ExpectedContext(k) ==
  { [wolf |-> w, round |-> "current", choice |-> current_round_votes[w]] :
      w \in { x \in AliveWolves \cap DOMAIN current_round_votes : x < k } }
  \cup
  { [wolf |-> w, round |-> "previous", choice |-> votes[w]] :
      w \in { x \in AliveWolves \cap DOMAIN votes : x > k } }

\* C27: in a negotiation round the context shown to wolf k holds exactly
\* the current-round choice of every earlier wolf that voted validly in this
\* round and the previous-round choice of every later wolf (the blind round
\* for round 1), no choice of wolf k and no current-round choice of a later
\* wolf; the previous-round choices are the valid votes of the round before
C27_NegotiationVisibility ==
  /\ []((pc = "wolf_round" /\ wi > 1)
          => /\ asked = { AskedWolf }
             /\ Range(context) = ExpectedContext(AskedWolf)
             /\ \A e \in Range(context) : e.wolf # AskedWolf)
  /\ [][ (pc = "wolf_round" /\ pc' = "wolf_round") => (votes' = votes) ]_vars
  /\ [][ (pc = "wolf_round" /\ pc' = "wolf_check")
           => (votes' = current_round_votes) ]_vars

\* the middle wolf of three in round 2 or later: its context holds a
\* current-round choice and a previous-round choice
C27_Witness ==
  /\ pc = "wolf_round"
  /\ wi > 1
  /\ round_idx >= 2
  /\ \E e1, e2 \in Range(context) :
       /\ e1.round = "current" /\ e1.wolf < AskedWolf
       /\ e2.round = "previous" /\ e2.wolf > AskedWolf

\* C28: the negotiation ends after the blind round and at most 3 rounds:
\* a seat is asked at most once per round and at most 4 times, only living
\* wolves are asked, a reply that is no living seat leaves the round's votes
\* as they were and the next wolf is asked, and the negotiation always
\* returns to run_night_phase without an error
C28_NegotiationTerminates ==
  /\ [](/\ round_idx <= 3
        /\ pc # "aborted"
        /\ \A w \in Seats :
             /\ solicited[w] <= 1 + round_idx
             /\ solicited[w] <= 4
             /\ w \notin AliveWolves => solicited[w] = 0)
  /\ [][ (pc = "wolf_round" /\ wi <= Len(wolves))
           => /\ pc' = "wolf_round"
              /\ wi' = wi + 1
              /\ \/ current_round_votes' = current_round_votes
                 \/ /\ DOMAIN current_round_votes'
                        = DOMAIN current_round_votes \cup { wolves[wi] }
                    /\ current_round_votes'[wolves[wi]] \in get_alive_players ]_vars
  /\ <>(pc = "night_witch_save")

\* three rounds without consensus: a wolf has been asked 4 times, a wolf
\* abstained in the last round, and the forced resolution is reached
C28_Witness ==
  /\ pc = "wolf_force"
  /\ round_idx = 3
  /\ \E w \in AliveWolves : solicited[w] = 4
  /\ \E w \in AliveWolves : w \notin DOMAIN votes

\* the seats whose tasks of the gathered step have ended
Done == { s \in DOMAIN agent_reply : task_st[s] = "done" }

\* C23: in the blind wolf vote, the day vote and the PK vote, under every
\* interleaving of the tasks, the history of a participant whose own choice
\* is not yet produced holds no choice of another participant of the step,
\* and no step of a task changes any history of the step's statements
C23_ConcurrentIsolation ==
  /\ [](\A s \in DOMAIN agent_reply :
          (pc \in StepPcs /\ task_st[s] # "done") => heard[s] = << >>)
  /\ [][ (pc \in StepPcs) => (heard' = heard) ]_vars

\* a task has ended while another has not yet started and a third waits
\* for its reply
C23_Witness ==
  /\ pc = "day_vote"
  /\ \E a, b, c \in DOMAIN agent_reply :
       /\ task_st[a] = "done" /\ agent_reply[a] = IntText(2)
       /\ task_st[b] = "running"
       /\ task_st[c] = "pending"
       /\ b < a /\ c < a

\* the vote map that attributes each reply to the seat whose agent gave it
AttributedVotes(options) ==
  [ s \in DOMAIN agent_reply |-> VoteOf(agent_reply[s], options) ]

\* C25: whatever the order in which the tasks of a vote end, each reply is
\* recorded as the vote of the seat that produced it, and the tally and its
\* outcome are those of that vote map
C25_TallyOrderIndependent ==
  /\ pc = "day_tally" => day_votes = AttributedVotes(DOMAIN agent_reply)
  /\ pc = "pk_tally" => pk_votes = AttributedVotes(pk_ids)
  /\ pc \in { "wolf_check", "wolf_round", "night_witch_save" }
       => votes = WolfVotes(agent_reply, DOMAIN agent_reply, get_alive_players)
  /\ pc = "out_lastwords"
       => /\ ~is_alive[out_id]
          /\ StrictPlurality(AttributedVotes(IF pk_votes = EmptyMap
                                               THEN DOMAIN agent_reply
                                               ELSE pk_ids), out_id)
  /\ pc = "pk_speech" => pk_ids = TiedTop(AttributedVotes(DOMAIN agent_reply))
  /\ pc = "run_turn"
       => \/ TiedTop(AttributedVotes(IF pk_votes = EmptyMap
                                       THEN DOMAIN agent_reply ELSE pk_ids)) = {}
          \/ (pk_votes # EmptyMap /\ Cardinality(TiedTop(AttributedVotes(pk_ids))) > 1)

\* a day vote tallied after its tasks ended in the reverse of the task
\* order, with replies that differ between the seats, and a seat voted out
C25_Witness ==
  /\ pc = "out_lastwords"
  /\ Len(completion) >= 3
  /\ \A i \in 1 .. Len(completion) - 1 : completion[i] > completion[i + 1]
  /\ \E a, b \in DOMAIN agent_reply : agent_reply[a] # agent_reply[b]

\* ms2 is ms with its last n enabled models disabled and nothing else changed
SurplusFromEnd(ms, ms2, n) ==
  /\ Len(ms2) = Len(ms)
  /\ \A i \in 1 .. Len(ms) :
       ms2[i].disabled =
         (ms[i].disabled
            \/ Cardinality({ j \in i .. Len(ms) : ~ms[j].disabled }) <= n)

\* C26: load_config rejects a configuration exactly when fewer models are
\* enabled than there are players; otherwise it returns it with as many
\* enabled models as players, the surplus disabled from the end of the list
C26_EnabledEqualsPlayers ==
  [][ (config_pc = "loading")
        => /\ (config_pc' = "rejected")
                <=> (Len(active_models(models)) < total_players(roles))
           /\ (config_pc' = "returned")
                => /\ Len(active_models(models')) = total_players(roles)
                   /\ SurplusFromEnd(models, models',
                                     Len(active_models(models)) - total_players(roles)) ]_vars


\* ---------------------------------------------------------------------
\* The night's death list, the hunter's shot, liveness and the win checks
\* ---------------------------------------------------------------------
\* the seats the wolves and the witch killed in the night that is ending
NightKilled ==
  (IF target_id # None /\ target_id # save_id THEN { target_id } ELSE {})
    \cup (IF poison_id # None THEN { poison_id } ELSE {})

\* the seats named by the shots of the hunters the wolves alone killed
NightShots ==
  UNION { hunter_kills[h] : h \in { k \in NightKilled : /\ role[k] = HUNTER
                                                       /\ k # poison_id } }

\* C31: the list run_night_phase returns holds, each once, the wolf
\* target unless saved, the poison target, and the seats shot by the hunters
\* that died that night of another cause than poison; every seat of it was
\* alive when the night began, and a save never removes a poison death.
C31_NightDeathList ==
  [][ (pc = "night_loop" /\ pc' = "day_start")
        => ( /\ Range(dead_at_night') = NightKilled \cup NightShots
             /\ Len(dead_at_night') = Cardinality(Range(dead_at_night'))
             /\ \A s \in Range(dead_at_night') : is_alive[s]
             /\ (poison_id # None => poison_id \in Range(dead_at_night')) ) ]_vars

\* a night returned three dead: a wolf kill, a poison and a hunter's shot
C31_Witness ==
  /\ pc = "day_start"
  /\ Len(dead_at_night) = 3
  /\ \E h \in Range(dead_at_night) : role[h] = HUNTER /\ hunter_kills[h] # {}
  /\ antidote_used /\ poison_used

\* C32: every hunter is asked for a shot at most once in a game and its
\* shots kill at most one seat.
C32_HunterSingleUse ==
  \A h \in Seats : hunter_calls[h] <= 1 /\ Cardinality(hunter_kills[h]) <= 1

\* C33: a seat that is both the unsaved wolf target and the poison target
\* of a night is one death tagged "wolf".
C33_SharedTargetTaggedWolf ==
  (pc = "night_loop" /\ target_id # None /\ target_id = poison_id
      /\ target_id # save_id)
    => deaths = << << target_id, "wolf" >> >>

\* C36: no seat's liveness flag goes from false to true, so the set of
\* living seats never grows from a state to the next.
C36_LivenessMonotone ==
  [][ \A s \in Seats : (is_alive'[s] => is_alive[s]) ]_vars

\* seats died in the night, and then another by the day's vote
C36_Witness ==
  /\ pc = "day_check3" /\ dead_at_night # << >>
  /\ out_id # None /\ out_id \notin Range(dead_at_night)
  /\ \A s \in Range(dead_at_night) \cup { out_id } : ~is_alive[s]

\* C37: a night that begins with turn > 1 begins with a wolf alive and
\* fewer living wolves than living Good seats.
C37_NightStartsUndecided ==
  (pc = "night_wolf" /\ turn > 1)
    => ( /\ AliveWolves # {}
         /\ Cardinality(AliveWolves) < Cardinality(AliveGood) )

\* the second night begins after a seat died in the first turn
C37_Witness ==
  /\ pc = "night_wolf" /\ turn = 2 /\ ~game_over
  /\ Cardinality(AliveWolves) = 1 /\ Cardinality(AliveGood) = 2


\* ---------------------------------------------------------------------
\* Trimming before generation, and what trimming keeps
\* ---------------------------------------------------------------------
\* C34: every generate_response call of speak or act comes straight after
\* a _manage_memory pass: no second call is made since the last pass.
C34_TrimBeforeEveryCall == calls_since_trim <= 1

\* the entries of old that a pass leaving new has dropped
Dropped(old, new) == Len(old) - Len(new)

\* C35: a _manage_memory pass leaves the system entry followed by a suffix
\* of the other entries in their order, and the suffix is maximal: the
\* entry just before it does not fit in what is left of the budget.
C35_MaximalSuffix ==
  [][ (mem_last' = "manage" /\ Len(memory) > 1)
        => ( /\ Dropped(memory, memory') >= 0
             /\ memory' = << memory[1] >>
                            \o SubSeq(memory, 2 + Dropped(memory, memory'), Len(memory))
             /\ (Dropped(memory, memory') > 0
                   => TotalTokens(memory') + memory[1 + Dropped(memory, memory')].tokens
                        > max_tokens) ) ]_vars

\* a pass dropped the two oldest entries and kept two newer ones
C35_Witness ==
  /\ mem_last = "manage"
  /\ before_len = 5
  /\ Len(memory) = 3


\* ---------------------------------------------------------------------
\* Streaming
\* ---------------------------------------------------------------------
\* C38: the text generate_response returns in streaming mode is the
\* chunks it passed to the stream callback during the call, joined in order.
C38_ReturnedIsDelivered ==
  act_pc = "generated" => llm_response = delivered

====
